---------------------------- MODULE WorkerProofs ----------------------------
(***************************************************************************)
(* Proofs about what every system on the queue shares: the work queue, the *)
(* rows of an execution, the finalizer and the worker side, for any steps, *)
(* claimers, tasks, workflow and faults.  Engine, Recovery and Gates add   *)
(* other actors to that side; WaveRuntime uses the same rows.              *)
(***************************************************************************)
EXTENDS StepWorker, Cancellation, FiniteSetTheorems, WellFoundedInduction, TLAPS

(* The work queue. *)
(* A step of the queue keeps the types of its rows, candidates and locks.  *)
LEMMA QueueTypesKept ==
    ASSUME QueueTypeOK, [QueueNext]_queueVars PROVE QueueTypeOK'
<1> USE DEF QueueTypeOK, Leases
<1>1. ASSUME NEW gone \in SUBSET StepIds, NEW added \in SUBSET StepIds, Post(gone, added)
      PROVE  QueueTypeOK'
  BY <1>1 DEF Post, NoRow
<1>2. ASSUME NEW s \in StepIds, LeaseExpires(s) PROVE QueueTypeOK'
  BY <1>2 DEF LeaseExpires
<1>3. ASSUME NEW c \in Claimers, ClaimSelect(c) PROVE QueueTypeOK'
  BY <1>3 DEF ClaimSelect
<1>4. ASSUME NEW c \in Claimers, ClaimLock(c) PROVE QueueTypeOK'
  BY <1>4 DEF ClaimLock
<1>5. ASSUME NEW c \in Claimers, ClaimCommit(c) PROVE QueueTypeOK'
  BY <1>5 DEF ClaimCommit
<1>6. ASSUME NEW c \in Claimers, ClaimAbort(c) PROVE QueueTypeOK'
  BY <1>6 DEF ClaimAbort
<1>7. CASE ReclaimExpired
  BY <1>7 DEF ReclaimExpired
<1>8. CASE UNCHANGED queueVars
  BY <1>8 DEF queueVars
<1> QED
  BY <1>1, <1>2, <1>3, <1>4, <1>5, <1>6, <1>7, <1>8 DEF QueueNext

(* The queue is always well typed.                                         *)
LEMMA TypeInvariant == QueueSpec => []QueueTypeOK
<1>1. QueueInit => QueueTypeOK
  BY DEF QueueInit, QueueTypeOK, NoRow, Leases
<1> QED
  BY <1>1, QueueTypesKept, PTL DEF QueueSpec

(* A step of the queue keeps claims apart.                                 *)
LEMMA LocksKept ==
    ASSUME QueueTypeOK, LocksExclusive, [QueueNext]_queueVars
    PROVE  LocksExclusive'
<1> USE DEF QueueTypeOK, LocksExclusive, Queued
<1>1. ASSUME NEW gone \in SUBSET StepIds, NEW added \in SUBSET StepIds, Post(gone, added)
      PROVE  LocksExclusive'
  BY <1>1 DEF Post, AllLocked
<1>2. ASSUME NEW s \in StepIds, LeaseExpires(s) PROVE LocksExclusive'
  BY <1>2 DEF LeaseExpires
<1>3. ASSUME NEW c \in Claimers, ClaimSelect(c) PROVE LocksExclusive'
  <2>1. locked[c] \subseteq {}
    BY <1>3 DEF ClaimSelect
  <2> QED
    BY <1>3, <2>1 DEF ClaimSelect
<1>4. ASSUME NEW c \in Claimers, ClaimLock(c) PROVE LocksExclusive'
  <2>1. \A s \in locked'[c] : Queued(s) /\ s \in cand'[c] /\ s \notin AllLocked
    BY <1>4 DEF ClaimLock
  <2>2. \A d \in Claimers \ {c} : locked'[d] = locked[d] /\ cand'[d] = cand[d]
    BY <1>4 DEF ClaimLock
  <2>3. rows' = rows
    BY <1>4 DEF ClaimLock
  <2>4. \A d \in Claimers \ {c} : locked'[c] \cap locked'[d] = {}
    BY <2>1, <2>2 DEF AllLocked
  <2> QED
    BY <2>1, <2>2, <2>3, <2>4
<1>5. ASSUME NEW c \in Claimers, ClaimCommit(c) PROVE LocksExclusive'
  BY <1>5 DEF ClaimCommit
<1>6. ASSUME NEW c \in Claimers, ClaimAbort(c) PROVE LocksExclusive'
  BY <1>6 DEF ClaimAbort
<1>7. CASE ReclaimExpired
  BY <1>7 DEF ReclaimExpired
<1>8. CASE UNCHANGED queueVars
  BY <1>8 DEF queueVars
<1> QED
  BY <1>1, <1>2, <1>3, <1>4, <1>5, <1>6, <1>7, <1>8 DEF QueueNext

(* SKIP LOCKED keeps claims apart: no row is ever locked by two claims,    *)
(* and every locked row is an existing candidate of its claimer.           *)
THEOREM LocksAreExclusive == QueueSpec => []LocksExclusive
<1>1. QueueInit => LocksExclusive
  BY DEF QueueInit, LocksExclusive
<1> QED
  BY <1>1, LocksKept, TypeInvariant, PTL DEF QueueSpec

(* Counting the claims still to come: sets of claimers are finite, smaller *)
(* sets count less, and a set that loses a member counts one less.         *)
LEMMA ClaimerCount ==
    ASSUME NEW H \in SUBSET Claimers
    PROVE  /\ Cardinality(Claimers) \in Nat \ {0}
           /\ Cardinality(H) \in Nat
           /\ Cardinality(H) <= Cardinality(Claimers)
           /\ \A G \in SUBSET H : Cardinality(G) \in Nat /\ Cardinality(G) <= Cardinality(H)
           /\ \A c \in H : Cardinality(H \ {c}) = Cardinality(H) - 1
<1>1. IsFiniteSet(H) /\ Cardinality(H) <= Cardinality(Claimers)
  BY QueueAssumption, FS_Subset
<1>2. Cardinality(H) \in Nat /\ Cardinality(Claimers) \in Nat
  BY QueueAssumption, <1>1, FS_CardinalityType
<1>3. Cardinality(Claimers) # 0
  BY QueueAssumption, FS_EmptySet
<1>4. ASSUME NEW G \in SUBSET H
      PROVE  Cardinality(G) \in Nat /\ Cardinality(G) <= Cardinality(H)
  BY <1>1, FS_Subset, FS_CardinalityType
<1>5. ASSUME NEW c \in H PROVE Cardinality(H \ {c}) = Cardinality(H) - 1
  BY <1>1, FS_RemoveElement
<1> QED
  BY <1>1, <1>2, <1>3, <1>4, <1>5

(* A step after which a row has no more attempts and no more claimers in   *)
(* flight than before keeps the account of that row.                       *)
LEMMA AccountKept ==
    ASSUME QueueTypeOK, QueueTypeOK', AttemptsAccounted, NEW s \in StepIds,
           rows'[s].attempt <= rows[s].attempt,
           Holders(s)' \subseteq Holders(s)
    PROVE  (rows[s].attempt + Cardinality(Holders(s))
                < MaxAttempts + Cardinality(Claimers))'
<1>1. Holders(s) \in SUBSET Claimers
  BY DEF Holders
<1>2. Cardinality(Holders(s)') \in Nat /\ Cardinality(Holders(s)) \in Nat
      /\ Cardinality(Holders(s)') <= Cardinality(Holders(s))
      /\ Cardinality(Claimers) \in Nat
  BY <1>1, ClaimerCount
<1>3. rows[s].attempt \in Nat /\ rows'[s].attempt \in Nat
  BY DEF QueueTypeOK
<1>4. rows[s].attempt + Cardinality(Holders(s)) < MaxAttempts + Cardinality(Claimers)
  BY DEF AttemptsAccounted
<1> QED
  BY QueueAssumption, <1>2, <1>3, <1>4

(* Attempts made and claims in flight together stay below the limit plus   *)
(* the number of claimers.                                                 *)
THEOREM AccountInvariant == QueueSpec => []AttemptsAccounted
<1>1. QueueInit => AttemptsAccounted
  <2> SUFFICES ASSUME QueueInit, NEW s \in StepIds
               PROVE  rows[s].attempt + Cardinality(Holders(s))
                          < MaxAttempts + Cardinality(Claimers)
    BY DEF AttemptsAccounted
  <2>1. Holders(s) = {} /\ rows[s].attempt = 0
    BY DEF QueueInit, Holders, NoRow
  <2>2. Cardinality(Holders(s)) = 0
    BY <2>1, FS_EmptySet
  <2>3. Cardinality(Claimers) \in Nat \ {0}
    BY ClaimerCount
  <2> QED
    BY QueueAssumption, <2>1, <2>2, <2>3
<1>2. QueueTypeOK /\ QueueTypeOK' /\ LocksExclusive /\ AttemptsAccounted /\ [QueueNext]_queueVars
        => AttemptsAccounted'
  <2> SUFFICES ASSUME QueueTypeOK, QueueTypeOK', LocksExclusive, AttemptsAccounted,
                      [QueueNext]_queueVars, NEW s \in StepIds
               PROVE  (rows[s].attempt + Cardinality(Holders(s))
                          < MaxAttempts + Cardinality(Claimers))'
    BY DEF AttemptsAccounted
  <2>0. /\ Cardinality(Claimers) \in Nat \ {0}
        /\ Cardinality(Holders(s)) \in Nat
        /\ Cardinality(Holders(s)') \in Nat
        /\ Cardinality(Holders(s)') <= Cardinality(Claimers)
    <3>1. Holders(s) \in SUBSET Claimers /\ Holders(s)' \in SUBSET Claimers
      BY DEF Holders
    <3> QED
      BY <3>1, ClaimerCount
  <2>1. ASSUME NEW gone \in SUBSET StepIds, NEW added \in SUBSET StepIds, Post(gone, added)
        PROVE  (rows[s].attempt + Cardinality(Holders(s))
                    < MaxAttempts + Cardinality(Claimers))'
    <3>1. rows'[s].attempt <= rows[s].attempt
      BY <2>1 DEF Post, QueueTypeOK, NoRow
    <3>2. Holders(s)' \subseteq Holders(s)
      BY <2>1 DEF Post, Holders
    <3> QED
      BY <3>1, <3>2, AccountKept
  <2>2. ASSUME NEW t \in StepIds, LeaseExpires(t)
        PROVE  (rows[s].attempt + Cardinality(Holders(s))
                    < MaxAttempts + Cardinality(Claimers))'
    <3>1. rows'[s].attempt <= rows[s].attempt
      BY <2>2 DEF LeaseExpires, QueueTypeOK
    <3>2. Holders(s)' = Holders(s)
      BY <2>2 DEF LeaseExpires, Holders
    <3> QED
      BY <3>1, <3>2, AccountKept
  <2>3. ASSUME NEW c \in Claimers, ClaimSelect(c)
        PROVE  (rows[s].attempt + Cardinality(Holders(s))
                    < MaxAttempts + Cardinality(Claimers))'
    <3>1. CASE s \in cand'[c]
      <4>1. Claimable(s) /\ rows' = rows
        BY <2>3, <3>1 DEF ClaimSelect, QueueTypeOK
      <4>2. rows'[s].attempt < MaxAttempts /\ rows'[s].attempt \in Nat
        BY <4>1 DEF Claimable, QueueTypeOK
      <4> QED
        BY QueueAssumption, <2>0, <4>2
    <3>2. CASE s \notin cand'[c]
      <4>1. Holders(s)' \subseteq Holders(s)
        BY <2>3, <3>2 DEF ClaimSelect, Holders, QueueTypeOK
      <4>2. rows'[s].attempt <= rows[s].attempt
        BY <2>3 DEF ClaimSelect, QueueTypeOK
      <4> QED
        BY <4>1, <4>2, AccountKept
    <3> QED
      BY <3>1, <3>2
  <2>4. ASSUME NEW c \in Claimers, ClaimLock(c)
        PROVE  (rows[s].attempt + Cardinality(Holders(s))
                    < MaxAttempts + Cardinality(Claimers))'
    <3>1. rows'[s].attempt <= rows[s].attempt
      BY <2>4 DEF ClaimLock, QueueTypeOK
    <3>2. Holders(s)' \subseteq Holders(s)
      BY <2>4 DEF ClaimLock, Holders, QueueTypeOK
    <3> QED
      BY <3>1, <3>2, AccountKept
  <2>5. ASSUME NEW c \in Claimers, ClaimCommit(c)
        PROVE  (rows[s].attempt + Cardinality(Holders(s))
                    < MaxAttempts + Cardinality(Claimers))'
    <3>1. CASE s \in locked[c]
      <4>1. c \in Holders(s)
        BY <3>1 DEF LocksExclusive, Holders
      <4>2. Holders(s)' = Holders(s) \ {c}
        BY <2>5 DEF ClaimCommit, Holders, QueueTypeOK
      <4>3. Cardinality(Holders(s)') = Cardinality(Holders(s)) - 1
        <5>1. Holders(s) \in SUBSET Claimers
          BY DEF Holders
        <5> QED
          BY <4>1, <4>2, <5>1, ClaimerCount
      <4>4. rows'[s].attempt = rows[s].attempt + 1
        BY <2>5, <3>1 DEF ClaimCommit
      <4>5. rows[s].attempt \in Nat
        BY DEF QueueTypeOK
      <4>6. rows[s].attempt + Cardinality(Holders(s)) < MaxAttempts + Cardinality(Claimers)
        BY DEF AttemptsAccounted
      <4> QED
        BY <2>0, <4>3, <4>4, <4>5, <4>6
    <3>2. CASE s \notin locked[c]
      <4>1. rows'[s].attempt <= rows[s].attempt
        BY <2>5, <3>2 DEF ClaimCommit, QueueTypeOK
      <4>2. Holders(s)' \subseteq Holders(s)
        BY <2>5 DEF ClaimCommit, Holders, QueueTypeOK
      <4> QED
        BY <4>1, <4>2, AccountKept
    <3> QED
      BY <3>1, <3>2
  <2>6. ASSUME NEW c \in Claimers, ClaimAbort(c)
        PROVE  (rows[s].attempt + Cardinality(Holders(s))
                    < MaxAttempts + Cardinality(Claimers))'
    <3>1. rows'[s].attempt <= rows[s].attempt
      BY <2>6 DEF ClaimAbort, QueueTypeOK
    <3>2. Holders(s)' \subseteq Holders(s)
      BY <2>6 DEF ClaimAbort, Holders, QueueTypeOK
    <3> QED
      BY <3>1, <3>2, AccountKept
  <2>7. ASSUME ReclaimExpired
        PROVE  (rows[s].attempt + Cardinality(Holders(s))
                    < MaxAttempts + Cardinality(Claimers))'
    <3>1. rows'[s].attempt <= rows[s].attempt
      BY <2>7 DEF ReclaimExpired, QueueTypeOK
    <3>2. Holders(s)' = Holders(s)
      BY <2>7 DEF ReclaimExpired, Holders
    <3> QED
      BY <3>1, <3>2, AccountKept
  <2>8. ASSUME UNCHANGED queueVars
        PROVE  (rows[s].attempt + Cardinality(Holders(s))
                    < MaxAttempts + Cardinality(Claimers))'
    <3>1. rows' = rows /\ Holders(s)' = Holders(s)
      BY <2>8 DEF queueVars, Holders
    <3>2. rows'[s].attempt <= rows[s].attempt
      BY <3>1 DEF QueueTypeOK
    <3> QED
      BY <3>1, <3>2, AccountKept
  <2> QED
    BY <2>1, <2>2, <2>3, <2>4, <2>5, <2>6, <2>7, <2>8 DEF QueueNext
<1> QED
  BY <1>1, <1>2, TypeInvariant, LocksAreExclusive, PTL DEF QueueSpec

(* A row is claimed at most MaxAttempts - 1 + |Claimers| times: the limit  *)
(* itself when claims never overlap.                                       *)
THEOREM AttemptLimit == QueueSpec => []AttemptsBounded
<1>1. AttemptsAccounted /\ QueueTypeOK => AttemptsBounded
  <2> SUFFICES ASSUME AttemptsAccounted, QueueTypeOK, NEW s \in StepIds
               PROVE  rows[s].attempt < MaxAttempts + Cardinality(Claimers)
    BY DEF AttemptsBounded
  <2>1. Holders(s) \in SUBSET Claimers
    BY DEF Holders
  <2>2. Cardinality(Holders(s)) \in Nat /\ Cardinality(Claimers) \in Nat
    BY <2>1, ClaimerCount
  <2>3. rows[s].attempt \in Nat
    BY DEF QueueTypeOK
  <2> QED
    BY QueueAssumption, <2>2, <2>3 DEF AttemptsAccounted
<1> QED
  BY <1>1, AccountInvariant, TypeInvariant, PTL

(* Attempts only grow while a row exists, across expiry and reclaiming.    *)
LEMMA AttemptsGrow ==
    ASSUME QueueTypeOK, [QueueNext]_queueVars, NEW s \in StepIds, Queued(s), Queued(s)'
    PROVE  rows'[s].attempt >= rows[s].attempt
<1> USE DEF QueueTypeOK, Queued
<1>1. ASSUME NEW gone \in SUBSET StepIds, NEW added \in SUBSET StepIds, Post(gone, added)
      PROVE  rows'[s].attempt >= rows[s].attempt
  BY <1>1 DEF Post, NoRow
<1>2. ASSUME NEW t \in StepIds, LeaseExpires(t) PROVE rows'[s].attempt >= rows[s].attempt
  BY <1>2 DEF LeaseExpires
<1>3. ASSUME NEW c \in Claimers, ClaimCommit(c) PROVE rows'[s].attempt >= rows[s].attempt
  BY <1>3 DEF ClaimCommit
<1>4. ASSUME NEW c \in Claimers, ClaimSelect(c) \/ ClaimLock(c) \/ ClaimAbort(c)
      PROVE  rows'[s].attempt >= rows[s].attempt
  BY <1>4 DEF ClaimSelect, ClaimLock, ClaimAbort
<1>5. CASE ReclaimExpired
  BY <1>5 DEF ReclaimExpired
<1>6. CASE UNCHANGED queueVars
  BY <1>6 DEF queueVars
<1> QED
  BY <1>1, <1>2, <1>3, <1>4, <1>5, <1>6 DEF QueueNext

(* AttemptsAccumulate: neither the end of a lease nor reclaiming it gives  *)
(* a step its attempts back (reclaim_expired_leases writes the lease only).*)
THEOREM AttemptsOnlyGrow == QueueSpec => AttemptsAccumulate
<1>1. QueueTypeOK /\ [QueueNext]_queueVars =>
        [\A s \in StepIds :
            Queued(s) /\ Queued(s)' => rows'[s].attempt >= rows[s].attempt]_queueVars
  BY AttemptsGrow
<1> QED
  BY <1>1, TypeInvariant, PTL DEF QueueSpec, AttemptsAccumulate

-----------------------------------------------------------------------------
(* Any non-empty set of naturals has a least element ...                   *)
LEMMA LeastOf ==
    ASSUME NEW S \in SUBSET Nat, S # {}
    PROVE  \E m \in S : \A k \in S : m <= k
<1> DEFINE Less == OpToRel(<, Nat)
<1>1. IsWellFoundedOn(Less, Nat)
  BY NatLessThanWellFounded
<1>2. \A k, m \in Nat : k < m => <<k, m>> \in Less
  BY DEF OpToRel
<1> HIDE DEF Less
<1>3. PICK m \in S : \A k \in S : ~ <<k, m>> \in Less
  BY <1>1, WFMin
<1>4. \A k \in S : ~ (k < m)
  BY <1>2, <1>3
<1>5. \A k \in S : m <= k
  BY <1>4
<1> QED
  BY <1>5

(* ... and a bounded one has a greatest.                                   *)
LEMMA GreatestOf ==
    ASSUME NEW S \in SUBSET Nat, S # {}, NEW n \in Nat, \A k \in S : k <= n
    PROVE  \E m \in S : \A k \in S : m >= k
<1> DEFINE Bounds == {u \in Nat : \A k \in S : k <= u}
<1>1. Bounds \in SUBSET Nat /\ n \in Bounds
  OBVIOUS
<1>2. PICK m \in Bounds : \A u \in Bounds : m <= u
  BY <1>1, LeastOf
<1>3. m \in S
  <2>1. SUFFICES ASSUME m \notin S PROVE FALSE
    OBVIOUS
  <2>2. \A k \in S : k \in Nat /\ k <= m /\ k # m
    BY <1>2, <2>1
  <2>3. m \in Nat /\ m # 0
    <3>1. PICK k \in S : TRUE
      OBVIOUS
    <3> QED
      BY <1>2, <2>2, <3>1
  <2>4. m - 1 \in Nat /\ \A k \in S : k <= m - 1
    BY <2>2, <2>3
  <2>5. m - 1 \in Bounds
    BY <2>4
  <2> QED
    BY <1>2, <2>3, <2>5
<1> QED
  BY <1>2, <1>3

(* The greatest step_order is a natural number no existing step exceeds.   *)
LEMMA MaxOrderBound ==
    /\ MaxOrder \in StepIds \cup {0}
    /\ MaxOrder \in Nat
    /\ MaxOrder # 0 => Exists(MaxOrder)
    /\ \A o \in StepIds : Exists(o) => o <= MaxOrder
<1> DEFINE S == {o \in StepIds : Exists(o)} \cup {0}
<1>1. Cardinality(StepIds) \in Nat /\ StepIds = 1 .. Cardinality(StepIds)
  BY StoreAssumption, FS_CardinalityType DEF StoreAssumption
<1>2. S \in SUBSET Nat /\ S # {} /\ \A k \in S : k <= Cardinality(StepIds)
  BY <1>1
<1>3. \E m \in S : \A k \in S : m >= k
  BY <1>1, <1>2, GreatestOf
<1>4. MaxOrder = CHOOSE m \in S : \A k \in S : m >= k
  BY DEF MaxOrder, Max
<1>5. MaxOrder \in S /\ \A k \in S : MaxOrder >= k
  BY <1>3, <1>4
<1> QED
  BY <1>2, <1>5

(* A finite set as a sequence: of its elements, empty only if the set is.  *)
LEMMA SetToSeqType ==
    ASSUME NEW S, IsFiniteSet(S)
    PROVE  /\ SetToSeq(S) \in Seq(S)
           /\ S # {} => SetToSeq(S) # << >>
           /\ Len(SetToSeq(S)) = Cardinality(S)
           /\ IsInjective(SetToSeq(S))
<1> DEFINE n == Cardinality(S)
<1>1. n \in Nat /\ ExistsBijection(1 .. n, S)
  BY FS_CardinalityType
<1>2. \E f \in [1 .. n -> S] : IsInjective(f)
  BY <1>1 DEF ExistsBijection, Bijection, Injection
<1>3. SetToSeq(S) \in [1 .. n -> S] /\ IsInjective(SetToSeq(S))
  BY <1>2 DEF SetToSeq
<1>4. SetToSeq(S) \in Seq(S) /\ Len(SetToSeq(S)) = n
  BY <1>1, <1>3
<1>5. S # {} => n # 0
  BY FS_EmptySet
<1> QED
  BY <1>3, <1>4, <1>5

(* The next steps of a step are steps of the workflow.                     *)
LEMMA LinearNextType ==
    ASSUME NEW n \in Nodes PROVE LinearNext(Workflow, n) \in Seq(Nodes)
<1> DEFINE later == {m \in Nodes : Workflow[m].order > Workflow[n].order}
<1> DEFINE orders == {Workflow[m].order : m \in later}
<1>1. \A m \in Nodes : Workflow[m].order \in Nat
  BY StoreAssumption DEF StoreAssumption, IsWorkflow, Nodes
<1> DEFINE first == CHOOSE m \in later : \A k \in later : Workflow[m].order <= Workflow[k].order
<1>2. LinearNext(Workflow, n) = IF later = {} THEN << >> ELSE << first >>
  BY DEF LinearNext, Nodes
<1>3. later # {} => first \in Nodes
  <2>1. SUFFICES ASSUME later # {} PROVE first \in Nodes
    OBVIOUS
  <2>2. orders \in SUBSET Nat /\ orders # {}
    BY <1>1, <2>1
  <2>3. PICK least \in orders : \A k \in orders : least <= k
    BY <2>2, LeastOf
  <2>4. \E m \in later : \A k \in later : Workflow[m].order <= Workflow[k].order
    BY <2>3
  <2> QED
    BY <2>4
<1> HIDE DEF later, first
<1> QED
  BY <1>2, <1>3

(* ... whichever way the step ended, as are its own lists of targets.      *)
LEMMA NextStepIdsType ==
    ASSUME NEW n \in Nodes
    PROVE  /\ \A outcome : NextStepIds(Workflow, n, outcome) \in Seq(Nodes)
           /\ Workflow[n].success \in Seq(Nodes)
           /\ Workflow[n].error \in Seq(Nodes)
<1>1. Workflow[n].success \in Seq(Nodes) /\ Workflow[n].error \in Seq(Nodes)
  BY StoreAssumption DEF StoreAssumption, IsWorkflow, Nodes
<1> QED
  BY <1>1, LinearNextType DEF NextStepIds

LEMMA NextWave ==
    ASSUME NEW n \in Nodes, NEW out
    PROVE  ToSet(NextStepIds(Workflow, n, out)) \in SUBSET Nodes
<1>1. NextStepIds(Workflow, n, out) \in Seq(Nodes)
  BY NextStepIdsType
<1> QED
  BY <1>1 DEF ToSet

(* A list that is worked off from its head.                                *)
LEMMA HeadAndTail ==
    ASSUME NEW S, NEW list \in Seq(S), list # << >>
    PROVE  /\ Tail(list) \in Seq(S)
           /\ Head(list) \in ToSet(list)
           /\ ToSet(list) = {Head(list)} \cup ToSet(Tail(list))
<1>1. Len(list) \in Nat /\ Len(list) # 0 /\ DOMAIN list = 1 .. Len(list)
  OBVIOUS
<1>2. Tail(list) \in Seq(S) /\ Head(list) = list[1] /\ Len(Tail(list)) = Len(list) - 1
  BY <1>1
<1>3. \A i \in 1 .. Len(list) - 1 : Tail(list)[i] = list[i + 1]
  BY <1>1
<1>4. DOMAIN Tail(list) = 1 .. Len(list) - 1
  BY <1>1, <1>2
<1>5. ASSUME NEW x \in ToSet(list), x # Head(list) PROVE x \in ToSet(Tail(list))
  <2>1. PICK i \in 1 .. Len(list) : x = list[i]
    BY <1>1, <1>5 DEF ToSet
  <2>2. i # 1
    BY <1>2, <1>5, <2>1
  <2>3. i - 1 \in 1 .. Len(list) - 1 /\ Tail(list)[i - 1] = list[i - 1 + 1]
    BY <1>1, <1>3, <2>1, <2>2
  <2>4. Tail(list)[i - 1] = x
    BY <2>1, <2>3
  <2> QED
    BY <1>4, <2>3, <2>4 DEF ToSet
<1>6. ASSUME NEW x \in ToSet(Tail(list)) PROVE x \in ToSet(list)
  <2>1. PICK i \in 1 .. Len(list) - 1 : x = Tail(list)[i]
    BY <1>4, <1>6 DEF ToSet
  <2>2. i + 1 \in 1 .. Len(list) /\ x = list[i + 1]
    BY <1>1, <1>3, <2>1
  <2> QED
    BY <1>1, <2>2 DEF ToSet
<1>7. Head(list) \in ToSet(list)
  <2>1. 1 \in DOMAIN list
    BY <1>1
  <2> QED
    BY <1>2, <2>1 DEF ToSet
<1> QED
  BY <1>2, <1>5, <1>6, <1>7
-----------------------------------------------------------------------------
(* A finalizer that has read all it wants is about to write the end.       *)
FinTold ==
    \A a \in Actors :
        fin[a].pc \in {"refresh", "cas"}
            => fin[a].out \in {"COMPLETED", "FAILED", "CANCELLED"}

(* What the worker side relies on.  Its types are not kept on their own: a *)
(* task writes into the row of its step and a launcher queues the step it  *)
(* created, so types are kept only because whatever is referred to exists; *)
(* a claim writes the rows it has locked, which exist because of           *)
(* LocksExclusive; and the status of the execution becomes what a          *)
(* finalizer has found (FinTold).                                          *)
WorkInv ==
    /\ StoreTypeOK /\ QueueTypeOK /\ FinTypeOK /\ WorkerTypeOK
    /\ RowsHeld /\ LauncherHeld /\ TasksHeld
    /\ LocksExclusive /\ FinTold

(* A task at rest.                                                         *)
LEMMA IdleTask == Idle \in Tasks /\ Idle.pc = "idle"
BY DEF Idle, Tasks

(* The initial state is well typed and refers to no step.                  *)
LEMMA WorkerInitial == StoreInit /\ QueueInit /\ FinInit /\ WorkerInit => WorkInv
<1> SUFFICES ASSUME StoreInit, QueueInit, FinInit, WorkerInit PROVE WorkInv
  OBVIOUS
<1>1. StoreTypeOK /\ \A o \in StepIds : ~Exists(o) /\ ~Queued(o)
  BY DEF StoreInit, QueueInit, StoreTypeOK, NoStep, Exists, Queued, NoRow,
         ExecStatuses
<1>2. QueueTypeOK
  BY DEF QueueInit, QueueTypeOK, NoRow, Leases
<1>3. FinTypeOK
  BY DEF FinInit, FinTypeOK, Off
<1>4. EntrySteps(Workflow) \subseteq Nodes /\ IsFiniteSet(EntrySteps(Workflow))
  <2>1. EntrySteps(Workflow) \subseteq Nodes
    BY DEF EntrySteps, Nodes
  <2> QED
    BY <2>1, FS_Subset, StoreAssumption DEF StoreAssumption, Nodes
<1>5. SetToSeq(EntrySteps(Workflow)) \in Seq(Nodes)
  BY <1>4, SetToSeqType
<1>6. WorkerTypeOK
  BY <1>5, IdleTask DEF WorkerInit, WorkerTypeOK
<1>7. RowsHeld
  BY <1>1 DEF RowsHeld
<1>8. LauncherHeld
  BY DEF LauncherHeld, WorkerInit
<1>9. TasksHeld
  BY DEF TasksHeld, WorkerInit, Idle
<1>10. LocksExclusive
  BY DEF QueueInit, LocksExclusive
<1>11. FinTold
  BY DEF FinInit, FinTold, Off
<1> QED
  BY <1>1, <1>2, <1>3, <1>6, <1>7, <1>8, <1>9, <1>10, <1>11 DEF WorkInv
-----------------------------------------------------------------------------
(* What every step of the system does to the rows: the steps stay well     *)
(* typed and those that exist stay, and the queue takes a step of its own  *)
(* which only adds rows of existing steps.                                 *)
StoreKept == StoreTypeOK' /\ \A o \in StepIds : Exists(o) => Exists(o)'

RowsKept ==
    /\ [QueueNext]_queueVars
    /\ \A o \in StepIds : Queued(o)' => Queued(o) \/ Exists(o)'

(* The ways in which steps change: not at all, ...                         *)
LEMMA StepsSame ==
    ASSUME StoreTypeOK, exec' \in ExecStatuses, UNCHANGED steps PROVE StoreKept
BY DEF StoreTypeOK, StoreKept, Exists

(* ... in the status of an existing step, ...                              *)
LEMMA StepSet ==
    ASSUME StoreTypeOK, exec' \in ExecStatuses,
           NEW o \in StepIds, Exists(o), NEW status \in StepStatuses,
           SetStep(o, status)
    PROVE  StoreKept
<1>1. steps' = [steps EXCEPT ![o].status = status] /\ status # "none"
  BY DEF SetStep, StepStatuses
<1>2. \A q \in StepIds : steps'[q].node = steps[q].node
  BY <1>1 DEF StoreTypeOK
<1>3. steps'[o].status = status /\ \A q \in StepIds : q # o => steps'[q] = steps[q]
  BY <1>1 DEF StoreTypeOK
<1>4. steps' \in [StepIds -> [node : Nodes \cup {NoNode},
                              status : StepStatuses \cup {"none"}]]
  BY <1>1 DEF StoreTypeOK
<1>5. steps[o].node # NoNode
  BY DEF StoreTypeOK, Exists
<1>6. \A q \in StepIds : steps'[q].status = "none" <=> steps'[q].node = NoNode
  BY <1>1, <1>2, <1>3, <1>5 DEF StoreTypeOK
<1>7. \A q \in StepIds : Exists(q) => Exists(q)'
  BY <1>1, <1>3 DEF Exists
<1> QED
  BY <1>4, <1>6, <1>7 DEF StoreTypeOK, StoreKept

(* ... by a new step, ...                                                  *)
LEMMA StepAdded ==
    ASSUME StoreTypeOK, exec' \in ExecStatuses,
           NEW o \in StepIds, NEW n \in Nodes,
           steps' = [steps EXCEPT ![o] = Pending(n)]
    PROVE  StoreKept /\ Exists(o)'
<1>1. n # NoNode
  BY StoreAssumption DEF StoreAssumption, Nodes
<1>2. Pending(n) \in [node : Nodes \cup {NoNode}, status : StepStatuses \cup {"none"}]
  BY DEF Pending, StepStatuses
<1>3. steps'[o] = Pending(n) /\ \A q \in StepIds : q # o => steps'[q] = steps[q]
  BY DEF StoreTypeOK
<1>4. steps'[o].status = "PENDING" /\ steps'[o].node = n
  BY <1>3 DEF Pending
<1>5. steps' \in [StepIds -> [node : Nodes \cup {NoNode},
                              status : StepStatuses \cup {"none"}]]
  BY <1>2 DEF StoreTypeOK
<1>6. \A q \in StepIds : steps'[q].status = "none" <=> steps'[q].node = NoNode
  BY <1>1, <1>3, <1>4 DEF StoreTypeOK
<1>7. Exists(o)' /\ \A q \in StepIds : Exists(q) => Exists(q)'
  BY <1>3, <1>4 DEF Exists
<1> QED
  BY <1>5, <1>6, <1>7 DEF StoreTypeOK, StoreKept

(* ... or by a cancellation.                                               *)
LEMMA StepsCancelled ==
    ASSUME StoreTypeOK, exec' \in ExecStatuses, steps' = CancelledSteps
    PROVE  StoreKept
<1>1. ASSUME NEW o \in StepIds
      PROVE  /\ steps'[o] \in [node : Nodes \cup {NoNode},
                               status : StepStatuses \cup {"none"}]
             /\ steps'[o].status = "none" <=> steps'[o].node = NoNode
             /\ Exists(o) => Exists(o)'
  <2>1. CASE steps[o].status \in {"PENDING", "RUNNING", "WAITING"}
    <3>1. steps'[o] = [steps[o] EXCEPT !.status = "FAILED"]
      BY <2>1 DEF CancelledSteps
    <3>2. steps'[o].status = "FAILED" /\ steps'[o].node = steps[o].node
      BY <3>1 DEF StoreTypeOK
    <3>3. steps[o].node # NoNode
      BY <2>1 DEF StoreTypeOK
    <3> QED
      BY <3>1, <3>2, <3>3 DEF StoreTypeOK, StepStatuses, Exists
  <2>2. CASE steps[o].status \notin {"PENDING", "RUNNING", "WAITING"}
    <3>1. steps'[o] = steps[o]
      BY <2>2 DEF CancelledSteps
    <3> QED
      BY <3>1 DEF StoreTypeOK, Exists
  <2> QED
    BY <2>1, <2>2
<1>2. steps' \in [StepIds -> [node : Nodes \cup {NoNode},
                              status : StepStatuses \cup {"none"}]]
  BY <1>1 DEF CancelledSteps
<1> QED
  BY <1>1, <1>2 DEF StoreTypeOK, StoreKept

(* The ways in which rows change: not at all, ...                          *)
LEMMA RowsSame ==
    ASSUME UNCHANGED queueVars PROVE RowsKept
BY DEF RowsKept, queueVars, Queued

(* ... by a transaction that adds rows of steps which exist after it, ...  *)
LEMMA RowsPosted ==
    ASSUME NEW gone \in SUBSET StepIds, NEW added \in SUBSET StepIds,
           Post(gone, added), \A o \in added : Exists(o)'
    PROVE  RowsKept
<1>1. QueueNext
  BY DEF QueueNext
<1>2. ASSUME NEW o \in StepIds, Queued(o)' PROVE Queued(o) \/ Exists(o)'
  BY <1>2 DEF Post, Queued, NoRow
<1> QED
  BY <1>1, <1>2 DEF RowsKept

(* ... or by a claim, the end of a lease or its reclaiming.                *)
LEMMA RowsClaimed ==
    ASSUME QueueTypeOK, LocksExclusive,
           \/ \E c \in Claimers :
                 ClaimSelect(c) \/ ClaimLock(c) \/ ClaimCommit(c) \/ ClaimAbort(c)
           \/ \E s \in StepIds : LeaseExpires(s)
           \/ ReclaimExpired
    PROVE  RowsKept
<1>1. QueueNext
  BY DEF QueueNext
<1>2. ASSUME NEW o \in StepIds, Queued(o)' PROVE Queued(o)
  <2>1. ASSUME NEW c \in Claimers, ClaimCommit(c) PROVE Queued(o)
    BY <1>2, <2>1 DEF ClaimCommit, LocksExclusive, Queued
  <2>2. ASSUME NEW c \in Claimers, ClaimSelect(c) \/ ClaimLock(c) \/ ClaimAbort(c)
        PROVE  Queued(o)
    BY <1>2, <2>2 DEF ClaimSelect, ClaimLock, ClaimAbort, Queued
  <2>3. ASSUME NEW s \in StepIds, LeaseExpires(s) PROVE Queued(o)
    BY <1>2, <2>3 DEF LeaseExpires, Queued, QueueTypeOK
  <2>4. CASE ReclaimExpired
    BY <1>2, <2>4 DEF ReclaimExpired, Queued, QueueTypeOK
  <2> QED
    BY <2>1, <2>2, <2>3, <2>4
<1> QED
  BY <1>1, <1>2 DEF RowsKept

(* Either way the queue stays well typed, its claims apart, and its rows   *)
(* those of existing steps.                                                *)
LEMMA RowsStayHeld ==
    ASSUME QueueTypeOK, LocksExclusive, RowsHeld, StoreKept, RowsKept
    PROVE  QueueTypeOK' /\ LocksExclusive' /\ RowsHeld'
<1>1. QueueTypeOK' /\ LocksExclusive'
  BY QueueTypesKept, LocksKept DEF RowsKept
<1>2. RowsHeld'
  BY DEF RowsHeld, RowsKept, StoreKept
<1> QED
  BY <1>1, <1>2
-----------------------------------------------------------------------------
(* What a finalization may become: started, with the outcome of a step, ...*)
LEMMA FinStarted ==
    ASSUME FinTypeOK, FinTold,
           NEW a \in Actors, NEW outcome \in Outcomes \cup {"none"},
           StartFinalize(a, outcome)
    PROVE  FinTypeOK' /\ FinTold'
<1>1. FinTypeOK'
  BY DEF FinTypeOK, StartFinalize
<1>2. FinTold'
  BY DEF FinTypeOK, FinTold, StartFinalize
<1> QED
  BY <1>1, <1>2

(* ... abandoned, ...                                                      *)
LEMMA FinStopped ==
    ASSUME FinTypeOK, FinTold, NEW a \in Actors, fin' = [fin EXCEPT ![a] = Off]
    PROVE  FinTypeOK' /\ FinTold'
<1>1. FinTypeOK'
  BY DEF FinTypeOK, Off
<1>2. FinTold'
  BY DEF FinTypeOK, FinTold, Off
<1> QED
  BY <1>1, <1>2

(* ... or left alone.                                                      *)
LEMMA FinSame ==
    ASSUME FinTypeOK, FinTold, UNCHANGED fin
    PROVE  FinTypeOK' /\ FinTold'
BY DEF FinTypeOK, FinTold

(* A finalizer changes the status of the execution at most, to an outcome. *)
LEMMA FinalizeStep ==
    ASSUME StoreTypeOK, FinTypeOK, FinTold, NEW a \in Actors, Finalize(a)
    PROVE  StoreKept /\ RowsKept /\ FinTypeOK' /\ FinTold'
<1> DEFINE Told(f) == f.pc \in {"refresh", "cas"}
                          => f.out \in {"COMPLETED", "FAILED", "CANCELLED"}
<1> DEFINE Fins == {f \in [pc : {"off", "active", "waiting", "failed",
                                 "refresh", "cas"},
                           out : Outcomes \cup {"none"}] : Told(f)}
<1>1. fin \in [Actors -> Fins] /\ fin[a] \in Fins /\ Off \in Fins
  BY DEF FinTypeOK, FinTold, Off
<1>2. fin' \in [Actors -> Fins] => FinTypeOK' /\ FinTold'
  BY DEF FinTypeOK, FinTold
<1> HIDE DEF Fins
<1>3. ASSUME NEW f \in Fins, fin' = [fin EXCEPT ![a] = f] PROVE FinTypeOK' /\ FinTold'
  BY <1>1, <1>2, <1>3
<1>4. ASSUME NEW pc \in {"waiting", "failed", "cas"},
             fin[a].pc # "refresh" => pc # "cas",
             fin' = [fin EXCEPT ![a].pc = pc]
      PROVE  FinTypeOK' /\ FinTold'
  <2>1. [fin[a] EXCEPT !.pc = pc] \in Fins
    <3>1. fin[a] = [pc |-> fin[a].pc, out |-> fin[a].out]
      BY DEF FinTypeOK
    <3>2. /\ fin[a].out \in Outcomes \cup {"none"}
          /\ pc = "cas" => fin[a].out \in {"COMPLETED", "FAILED", "CANCELLED"}
      BY <1>4 DEF FinTypeOK, FinTold
    <3>3. [fin[a] EXCEPT !.pc = pc] = [pc |-> pc, out |-> fin[a].out]
      BY <3>1
    <3> QED
      BY <3>2, <3>3 DEF Fins
  <2>2. fin' = [fin EXCEPT ![a] = [fin[a] EXCEPT !.pc = pc]]
    BY <1>1, <1>4
  <2> QED
    BY <1>3, <2>1, <2>2
<1>5. ASSUME UNCHANGED <<storeVars, queueVars>> PROVE StoreKept /\ RowsKept
  <2>1. exec' \in ExecStatuses /\ UNCHANGED steps /\ UNCHANGED queueVars
    BY <1>5 DEF storeVars, StoreTypeOK
  <2> QED
    BY <2>1, StepsSame, RowsSame
<1>6. CASE FinActive(a)
  BY <1>1, <1>3, <1>4, <1>5, <1>6 DEF FinActive
<1>7. CASE FinWaiting(a)
  BY <1>1, <1>3, <1>4, <1>5, <1>6, <1>7 DEF FinWaiting
<1>8. CASE FinFailed(a)
  <2> DEFINE final == IF fin[a].out = "CANCELLED" THEN "CANCELLED"
                      ELSE IF AnyStep({"FAILED"}) THEN "FAILED" ELSE "COMPLETED"
  <2>1. [pc |-> "refresh", out |-> final] \in Fins
    BY DEF Fins, Outcomes
  <2>2. fin' = [fin EXCEPT ![a] = [pc |-> "refresh", out |-> final]]
    BY <1>8 DEF FinFailed
  <2> HIDE DEF final
  <2> QED
    BY <1>3, <1>5, <1>8, <2>1, <2>2 DEF FinFailed
<1>9. CASE FinRefresh(a)
  BY <1>1, <1>3, <1>4, <1>5, <1>9 DEF FinRefresh
<1>10. CASE FinCas(a)
  <2>1. fin[a].out \in {"COMPLETED", "FAILED", "CANCELLED"}
    BY <1>10 DEF FinCas, FinTold
  <2>2. exec' \in ExecStatuses
    BY <1>10, <2>1 DEF FinCas, StoreTypeOK, ExecStatuses
  <2>3. StoreKept /\ RowsKept
    BY <1>10, <2>2, StepsSame, RowsSame DEF FinCas
  <2> QED
    BY <1>1, <1>3, <1>10, <2>3 DEF FinCas
<1> QED
  BY <1>6, <1>7, <1>8, <1>9, <1>10 DEF Finalize
-----------------------------------------------------------------------------
(* What the launcher holds stays, because steps do ...                     *)
LEMMA LauncherSame ==
    ASSUME LauncherHeld, StoreKept, UNCHANGED launcher PROVE LauncherHeld'
BY DEF LauncherHeld, StoreKept

(* ... and so does what the tasks hold.                                    *)
LEMMA TasksSame ==
    ASSUME TasksHeld, StoreKept, UNCHANGED wk PROVE TasksHeld'
BY DEF TasksHeld, StoreKept

(* A task may move to any state that holds what exists.                    *)
LEMMA TaskMoves ==
    ASSUME wk \in [Workers -> Tasks], TasksHeld, StoreKept,
           NEW w \in Workers, NEW t \in Tasks, wk' = [wk EXCEPT ![w] = t],
           t.pc # "idle" => t.sid \in StepIds /\ Exists(t.sid)',
           t.pc = "enqueue" => t.next # << >>
    PROVE  wk' \in [Workers -> Tasks] /\ TasksHeld'
<1>1. wk' \in [Workers -> Tasks]
  OBVIOUS
<1>2. ASSUME NEW v \in Workers
      PROVE  /\ (wk[v].pc # "idle" => wk[v].sid \in StepIds /\ Exists(wk[v].sid))'
             /\ wk'[v].pc = "enqueue" => wk'[v].next # << >>
  <2>1. CASE v = w
    <3>1. wk'[v] = t
      BY <2>1
    <3> QED
      BY <3>1 DEF Exists
  <2>2. CASE v # w
    <3>1. wk'[v] = wk[v]
      BY <2>2
    <3> QED
      BY <3>1 DEF TasksHeld, StoreKept, Exists
  <2> QED
    BY <2>1, <2>2
<1> QED
  BY <1>1, <1>2 DEF TasksHeld

(* A task may always give up.                                              *)
LEMMA TaskEnds ==
    ASSUME wk \in [Workers -> Tasks], TasksHeld, StoreKept,
           NEW w \in Workers, wk' = [wk EXCEPT ![w] = Idle]
    PROVE  wk' \in [Workers -> Tasks] /\ TasksHeld'
BY IdleTask, TaskMoves

(* What a step of the launcher, a claimer or a task keeps.                 *)
WorkerKept ==
    /\ StoreKept /\ RowsKept
    /\ FinTypeOK' /\ FinTold'
    /\ WorkerTypeOK' /\ LauncherHeld' /\ TasksHeld'

(* The web request inside run().                                           *)
LEMMA LauncherStep ==
    ASSUME WorkInv,
           Launch \/ LaunchCreate \/ LaunchCollides \/ LaunchEnqueue \/ LauncherCrash
    PROVE  WorkerKept
<1> DEFINE Launchers == [pc : {"ready", "create", "enqueue", "done"},
                         todo : Seq(Nodes), ctr : StepIds \cup {0}]
<1>1. /\ StoreTypeOK /\ WorkerTypeOK /\ LauncherHeld /\ TasksHeld
      /\ FinTypeOK /\ FinTold /\ launcher \in Launchers
  BY DEF WorkInv, WorkerTypeOK
<1>2. FinTypeOK' /\ FinTold'
  BY <1>1, FinSame
     DEF Launch, LaunchCreate, LaunchCollides, LaunchEnqueue, LauncherCrash
<1>3. ASSUME StoreKept PROVE TasksHeld'
  BY <1>1, <1>3, TasksSame
     DEF Launch, LaunchCreate, LaunchCollides, LaunchEnqueue, LauncherCrash
<1>4. ASSUME launcher' \in Launchers PROVE WorkerTypeOK'
  BY <1>1, <1>4
     DEF WorkerTypeOK, Launch, LaunchCreate, LaunchCollides, LaunchEnqueue,
         LauncherCrash
<1>5. ASSUME NEW pc \in {"create", "done"}, launcher' = [launcher EXCEPT !.pc = pc]
      PROVE  launcher' \in Launchers /\ LauncherHeld'
  BY <1>1, <1>5 DEF LauncherHeld
<1>6. CASE Launch
  <2>1. exec' \in ExecStatuses /\ UNCHANGED steps /\ UNCHANGED queueVars
    BY <1>1, <1>6 DEF Launch, StoreTypeOK, ExecStatuses
  <2>2. launcher' = [launcher EXCEPT !.pc = "create"]
            \/ launcher' = [launcher EXCEPT !.pc = "done"]
    BY <1>6 DEF Launch
  <2> QED
    BY <1>1, <1>2, <1>3, <1>4, <1>5, <2>1, <2>2, StepsSame, RowsSame
       DEF WorkerKept
<1>7. CASE LaunchCreate
  <2>0. PICK o \in StepIds : o = launcher.ctr + 1
    BY <1>7 DEF LaunchCreate
  <2>1. /\ launcher.todo # << >>
        /\ steps' = [steps EXCEPT ![o] = Pending(Head(launcher.todo))]
        /\ launcher' = [pc |-> "enqueue", todo |-> Tail(launcher.todo), ctr |-> o]
        /\ UNCHANGED exec /\ UNCHANGED queueVars
    BY <1>7, <2>0 DEF LaunchCreate
  <2>2. Head(launcher.todo) \in Nodes /\ Tail(launcher.todo) \in Seq(Nodes)
    BY <1>1, <2>1
  <2>3. exec' \in ExecStatuses
    BY <1>1, <2>1 DEF StoreTypeOK
  <2>4. StoreKept /\ Exists(o)'
    BY <1>1, <2>1, <2>2, <2>3, StepAdded
  <2>5. launcher' \in Launchers /\ launcher'.ctr = o
    BY <2>1, <2>2
  <2>6. LauncherHeld'
    BY <2>1, <2>4, <2>5 DEF LauncherHeld
  <2> QED
    BY <1>2, <1>3, <1>4, <2>1, <2>4, <2>5, <2>6, RowsSame DEF WorkerKept
<1>8. CASE LaunchCollides
  <2>1. exec' \in ExecStatuses /\ UNCHANGED steps /\ UNCHANGED queueVars
    BY <1>8 DEF LaunchCollides, ExecStatuses
  <2>2. launcher' = [launcher EXCEPT !.pc = "done"]
    BY <1>8 DEF LaunchCollides
  <2> QED
    BY <1>1, <1>2, <1>3, <1>4, <1>5, <2>1, <2>2, StepsSame, RowsSame
       DEF WorkerKept
<1>9. CASE LaunchEnqueue
  <2>1. exec' \in ExecStatuses /\ UNCHANGED steps
    BY <1>1, <1>9 DEF LaunchEnqueue, storeVars, StoreTypeOK
  <2>2. StoreKept
    BY <1>1, <2>1, StepsSame
  <2>3. PICK o \in StepIds : o = launcher.ctr /\ Exists(o)
    BY <1>1, <1>9 DEF LaunchEnqueue, LauncherHeld
  <2>6. Post({}, {o}) /\ Exists(o)'
    BY <1>9, <2>2, <2>3 DEF LaunchEnqueue, EnqueueRow, StoreKept
  <2>4. RowsKept
    BY <2>6, RowsPosted
  <2>5. launcher' = [launcher EXCEPT !.pc = "create"]
            \/ launcher' = [launcher EXCEPT !.pc = "done"]
    BY <1>9 DEF LaunchEnqueue
  <2> QED
    BY <1>2, <1>3, <1>4, <1>5, <2>2, <2>4, <2>5 DEF WorkerKept
<1>10. CASE LauncherCrash
  <2>1. exec' \in ExecStatuses /\ UNCHANGED steps /\ UNCHANGED queueVars
    BY <1>1, <1>10 DEF LauncherCrash, storeVars, StoreTypeOK
  <2>2. launcher' = [launcher EXCEPT !.pc = "done"]
    BY <1>10 DEF LauncherCrash
  <2> QED
    BY <1>1, <1>2, <1>3, <1>4, <1>5, <2>1, <2>2, StepsSame, RowsSame
       DEF WorkerKept
<1> QED
  BY <1>6, <1>7, <1>8, <1>9, <1>10

(* The claimers, the leases and the reconciler's reclaiming.               *)
LEMMA ClaimStep ==
    ASSUME WorkInv,
           \/ \E c \in Claimers : Claim(c) \/ ClaimerCrash(c)
           \/ \E c \in Claimers, s \in StepIds : Dispatch(c, s)
           \/ \E s \in StepIds : LeaseRunsOut(s)
           \/ Reclaim
    PROVE  WorkerKept
<1>1. /\ StoreTypeOK /\ WorkerTypeOK /\ LauncherHeld /\ TasksHeld
      /\ FinTypeOK /\ FinTold /\ QueueTypeOK /\ LocksExclusive
  BY DEF WorkInv
<1>2. UNCHANGED <<exec, steps, fin, launcher, wk>>
  BY
     DEF Claim, ClaimerCrash, Dispatch, LeaseRunsOut, Reclaim, storeVars,
         workerVars
<1>3. StoreKept
  <2>1. exec' \in ExecStatuses
    BY <1>1, <1>2 DEF StoreTypeOK
  <2> QED
    BY <1>1, <1>2, <2>1, StepsSame
<1>4. FinTypeOK' /\ FinTold' /\ LauncherHeld' /\ TasksHeld'
  BY <1>1, <1>2, <1>3, FinSame, LauncherSame, TasksSame
<1>5. ASSUME claimed' \in [Claimers -> SUBSET StepIds], inbox' \in [StepIds -> Nat], RowsKept
      PROVE  WorkerKept
  BY <1>1, <1>2, <1>3, <1>4, <1>5 DEF WorkerTypeOK, WorkerKept
<1>6. ASSUME NEW c \in Claimers, Claim(c) PROVE WorkerKept
  <2>1. RowsKept
    BY <1>1, <1>6, RowsClaimed DEF Claim
  <2>2. claimed' \in [Claimers -> SUBSET StepIds]
    BY <1>1, <1>6 DEF Claim, WorkerTypeOK, QueueTypeOK
  <2>3. inbox' \in [StepIds -> Nat]
    BY <1>1, <1>6 DEF Claim, WorkerTypeOK
  <2> QED
    BY <1>5, <2>1, <2>2, <2>3
<1>7. ASSUME NEW c \in Claimers, ClaimerCrash(c) PROVE WorkerKept
  <2>1. RowsKept
    BY <1>1, <1>7, RowsClaimed, RowsSame DEF ClaimerCrash
  <2>2. claimed' \in [Claimers -> SUBSET StepIds]
    BY <1>1, <1>7 DEF ClaimerCrash, WorkerTypeOK
  <2>3. inbox' \in [StepIds -> Nat]
    BY <1>1, <1>7 DEF ClaimerCrash, WorkerTypeOK
  <2> QED
    BY <1>5, <2>1, <2>2, <2>3
<1>8. ASSUME NEW c \in Claimers, NEW s \in StepIds, Dispatch(c, s) PROVE WorkerKept
  <2>1. RowsKept
    BY <1>8, RowsSame DEF Dispatch
  <2>2. claimed' \in [Claimers -> SUBSET StepIds] /\ inbox' \in [StepIds -> Nat]
    BY <1>1, <1>8 DEF Dispatch, WorkerTypeOK
  <2> QED
    BY <1>5, <2>1, <2>2
<1>9. ASSUME NEW s \in StepIds, LeaseRunsOut(s) PROVE WorkerKept
  <2>1. RowsKept
    BY <1>1, <1>9, RowsClaimed DEF LeaseRunsOut
  <2> QED
    BY <1>1, <1>5, <1>9, <2>1 DEF LeaseRunsOut, workerVars, WorkerTypeOK
<1>10. CASE Reclaim
  <2>1. RowsKept
    BY <1>1, <1>10, RowsClaimed DEF Reclaim
  <2> QED
    BY <1>1, <1>5, <1>10, <2>1 DEF Reclaim, workerVars, WorkerTypeOK
<1> QED
  BY <1>6, <1>7, <1>8, <1>9, <1>10

(* A task that only moves on itself: the rows are kept.                    *)
LEMMA TaskOnly ==
    ASSUME WorkInv, NEW w \in Workers, NEW t \in Tasks, wk' = [wk EXCEPT ![w] = t],
           t.pc # "idle" => t.sid \in StepIds /\ Exists(t.sid),
           t.pc = "enqueue" => t.next # << >>,
           FinTypeOK' /\ FinTold',
           UNCHANGED <<storeVars, queueVars, launcher, claimed, inbox>>
    PROVE  WorkerKept
<1>1. /\ StoreTypeOK /\ WorkerTypeOK /\ LauncherHeld /\ TasksHeld
      /\ exec' \in ExecStatuses /\ UNCHANGED steps /\ UNCHANGED queueVars
  BY DEF WorkInv, StoreTypeOK, storeVars
<1>2. StoreKept /\ RowsKept
  BY <1>1, StepsSame, RowsSame
<1>3. t.pc # "idle" => t.sid \in StepIds /\ Exists(t.sid)'
  BY <1>2 DEF StoreKept
<1>4. wk' \in [Workers -> Tasks] /\ TasksHeld'
  BY <1>1, <1>2, <1>3, TaskMoves DEF WorkerTypeOK
<1>5. LauncherHeld'
  BY <1>1, <1>2, LauncherSame
<1> QED
  BY <1>1, <1>2, <1>4, <1>5 DEF WorkerKept, WorkerTypeOK

(* A task that writes a status into its own step.                          *)
LEMMA TaskSets ==
    ASSUME WorkInv, NEW w \in Workers, wk[w].pc # "idle",
           NEW t \in Tasks, wk' = [wk EXCEPT ![w] = t],
           t.sid = wk[w].sid, t.pc # "enqueue",
           NEW status \in StepStatuses, SetStep(wk[w].sid, status),
           UNCHANGED <<exec, queueVars, fin, launcher, claimed, inbox>>
    PROVE  WorkerKept
<1>1. /\ StoreTypeOK /\ WorkerTypeOK /\ LauncherHeld /\ TasksHeld
      /\ FinTypeOK /\ FinTold /\ exec' \in ExecStatuses
  BY DEF WorkInv, StoreTypeOK
<1>2. PICK o \in StepIds : o = wk[w].sid /\ Exists(o)
  BY <1>1 DEF TasksHeld
<1>3. StoreKept
  BY <1>1, <1>2, StepSet
<1>4. RowsKept
  BY RowsSame
<1>5. t.sid \in StepIds /\ Exists(t.sid)'
  BY <1>2, <1>3 DEF StoreKept
<1>6. wk' \in [Workers -> Tasks] /\ TasksHeld'
  BY <1>1, <1>3, <1>5, TaskMoves DEF WorkerTypeOK
<1>7. LauncherHeld' /\ FinTypeOK' /\ FinTold'
  BY <1>1, <1>3, LauncherSame, FinSame
<1> QED
  BY <1>1, <1>3, <1>4, <1>6, <1>7 DEF WorkerKept, WorkerTypeOK

(* The end of a step, whichever way.                                       *)
LEMMA StepEnds ==
    ASSUME WorkInv, NEW w \in Workers, wk[w].pc # "idle",
           NEW status \in StepStatuses, NEW outcome \in Outcomes,
           NEW next \in Seq(Nodes), EndStep(w, status, outcome, next)
    PROVE  WorkerKept
<1> DEFINE t == [wk[w] EXCEPT !.pc = "release", !.mem = status,
                              !.out = outcome, !.next = next]
<1>1. wk \in [Workers -> Tasks] /\ wk[w] \in Tasks
  BY DEF WorkInv, WorkerTypeOK
<1>2. t \in Tasks /\ t.sid = wk[w].sid /\ t.pc = "release"
  BY <1>1 DEF Tasks
<1>3. wk' = [wk EXCEPT ![w] = t]
  BY <1>1 DEF EndStep
<1> HIDE DEF t
<1>4. PICK u \in Tasks : u = t
  BY <1>2
<1> QED
  BY <1>2, <1>3, <1>4, TaskSets DEF EndStep

(* The node of a busy task is a step of the workflow, and so are the next. *)
LEMMA TaskNode ==
    ASSUME WorkInv, NEW w \in Workers, wk[w].pc # "idle"
    PROVE  /\ wk[w] \in Tasks
           /\ NodeOf(w) \in Nodes
           /\ \A outcome : NextOf(w, outcome) \in Seq(Nodes)
<1>1. wk[w] \in Tasks /\ wk[w].sid \in StepIds /\ Exists(wk[w].sid)
  BY DEF WorkInv, WorkerTypeOK, TasksHeld
<1>2. NodeOf(w) \in Nodes
  BY <1>1 DEF WorkInv, StoreTypeOK, Exists, NodeOf
<1> QED
  BY <1>1, <1>2, NextStepIdsType DEF NextOf

(* execute_single_step, from the built runtime to the end of the step.     *)
LEMMA SingleStep ==
    ASSUME WorkInv, NEW w \in Workers,
           \/ BuildFails(w) \/ SkipStep(w) \/ BeginStep(w) \/ BeginRefused(w)
           \/ CheckCancelled(w) \/ FinishStep(w) \/ BreakStep(w) \/ OpenGate(w)
    PROVE  WorkerKept
<1>1. wk[w].pc # "idle"
  BY DEF BuildFails, SkipStep, BeginStep, BeginRefused, CheckCancelled,
         FinishStep, BreakStep, OpenGate
<1>2. /\ wk \in [Workers -> Tasks] /\ wk[w] \in Tasks
      /\ \A outcome : NextOf(w, outcome) \in Seq(Nodes)
  BY <1>1, TaskNode DEF WorkInv, WorkerTypeOK
<1>3. << >> \in Seq(Nodes)
  OBVIOUS
<1>4. /\ "FAILED" \in StepStatuses /\ "SKIPPED" \in StepStatuses
      /\ "COMPLETED" \in StepStatuses /\ "WAITING" \in StepStatuses
      /\ "RUNNING" \in StepStatuses
  BY DEF StepStatuses
<1>5. /\ "FAILED" \in Outcomes /\ "COMPLETED" \in Outcomes
      /\ "CANCELLED" \in Outcomes /\ "RUNNING" \in Outcomes
  BY DEF Outcomes
<1>6. CASE BuildFails(w) \/ BeginRefused(w)
  <2>1. EndStep(w, "FAILED", "FAILED", << >>)
    BY <1>6 DEF BuildFails, BeginRefused
  <2> QED
    BY <1>1, <1>3, <1>4, <1>5, <2>1, StepEnds
<1>7. CASE SkipStep(w)
  <2>1. PICK next \in Seq(Nodes) : next = NextOf(w, "COMPLETED")
    BY <1>2
  <2>2. EndStep(w, "SKIPPED", "COMPLETED", next)
    BY <1>7, <2>1 DEF SkipStep
  <2> QED
    BY <1>1, <1>4, <1>5, <2>2, StepEnds
<1>8. CASE BeginStep(w)
  <2> DEFINE t == [wk[w] EXCEPT !.pc = "begun", !.mem = "RUNNING"]
  <2>1. t \in Tasks /\ t.sid = wk[w].sid /\ t.pc = "begun"
    BY <1>2 DEF Tasks, StepStatuses
  <2>2. wk' = [wk EXCEPT ![w] = t]
    BY <1>2, <1>8 DEF BeginStep
  <2> HIDE DEF t
  <2>3. PICK u \in Tasks : u = t
    BY <2>1
  <2> QED
    BY <1>1, <1>4, <1>8, <2>1, <2>2, <2>3, TaskSets DEF BeginStep
<1>9. CASE CheckCancelled(w)
  <2>1. CASE EndStep(w, "FAILED", "CANCELLED", << >>)
    BY <1>1, <1>3, <1>4, <1>5, <2>1, StepEnds
  <2>2. CASE /\ wk' = [wk EXCEPT ![w].pc = "running"]
             /\ UNCHANGED <<storeVars, queueVars, fin, launcher, claimed, inbox>>
    <3> DEFINE t == [wk[w] EXCEPT !.pc = "running"]
    <3>1. /\ t \in Tasks /\ t.pc = "running"
          /\ t.sid \in StepIds /\ Exists(t.sid)
      <4>1. t \in Tasks /\ t.pc = "running" /\ t.sid = wk[w].sid
        BY <1>2 DEF Tasks
      <4>2. wk[w].sid \in StepIds /\ Exists(wk[w].sid)
        BY <1>1 DEF WorkInv, TasksHeld
      <4> QED
        BY <4>1, <4>2
    <3>2. wk' = [wk EXCEPT ![w] = t]
      BY <1>2, <2>2
    <3>3. FinTypeOK' /\ FinTold'
      BY <2>2, FinSame DEF WorkInv
    <3> HIDE DEF t
    <3>4. PICK u \in Tasks : u = t
      BY <3>1
    <3>5. UNCHANGED <<storeVars, queueVars, launcher, claimed, inbox>>
      BY <2>2
    <3> QED
      BY <3>1, <3>2, <3>3, <3>4, <3>5, TaskOnly
  <2> QED
    BY <1>9, <2>1, <2>2 DEF CheckCancelled
<1>10. CASE FinishStep(w)
  <2>1. PICK outcome \in {"COMPLETED", "FAILED", "CANCELLED"} :
           EndStep(w, IF outcome = "COMPLETED" THEN "COMPLETED" ELSE "FAILED",
                   outcome, NextOf(w, outcome))
    BY <1>10 DEF FinishStep
  <2>2. PICK next \in Seq(Nodes) : next = NextOf(w, outcome)
    BY <1>2
  <2>3. PICK status \in StepStatuses :
           status = IF outcome = "COMPLETED" THEN "COMPLETED" ELSE "FAILED"
    BY <1>4
  <2>4. EndStep(w, status, outcome, next) /\ outcome \in Outcomes
    BY <1>5, <2>1, <2>2, <2>3
  <2> QED
    BY <1>1, <2>4, StepEnds
<1>11. CASE BreakStep(w)
  <2>1. \/ EndStep(w, "FAILED", "FAILED", << >>)
        \/ EndStep(w, "FAILED", "RUNNING", << >>)
    BY <1>11 DEF BreakStep
  <2> QED
    BY <1>1, <1>3, <1>4, <1>5, <2>1, StepEnds
<1>12. CASE OpenGate(w)
  <2>1. EndStep(w, "WAITING", "RUNNING", << >>)
    BY <1>12 DEF OpenGate
  <2> QED
    BY <1>1, <1>3, <1>4, <1>5, <2>1, StepEnds
<1> QED
  BY <1>6, <1>7, <1>8, <1>9, <1>10, <1>11, <1>12

(* The start of a task: without its row it ends at once, with a step that  *)
(* is over it deletes the row, otherwise it holds the step of the row.     *)
LEMMA TaskBegins ==
    ASSUME WorkInv, NEW w \in Workers, NEW s \in StepIds, TaskStart(w, s)
    PROVE  WorkerKept
<1>1. /\ StoreTypeOK /\ WorkerTypeOK /\ LauncherHeld /\ TasksHeld /\ RowsHeld
      /\ FinTypeOK /\ FinTold /\ exec' \in ExecStatuses /\ UNCHANGED steps
      /\ UNCHANGED <<launcher, claimed, fin>>
  BY DEF WorkInv, StoreTypeOK, TaskStart, storeVars
<1>2. StoreKept
  BY <1>1, StepsSame
<1>3. LauncherHeld' /\ FinTypeOK' /\ FinTold'
  BY <1>1, <1>2, LauncherSame, FinSame
<1>4. inbox' \in [StepIds -> Nat]
  BY <1>1 DEF TaskStart, WorkerTypeOK
<1>5. ASSUME RowsKept, wk' \in [Workers -> Tasks], TasksHeld' PROVE WorkerKept
  BY <1>1, <1>2, <1>3, <1>4, <1>5 DEF WorkerKept, WorkerTypeOK
<1>6. CASE UNCHANGED <<queueVars, wk>>
  BY <1>1, <1>2, <1>5, <1>6, RowsSame, TasksSame DEF WorkerTypeOK
<1>7. CASE DeleteRows({s}) /\ UNCHANGED wk
  <2>1. RowsKept
    BY <1>7, RowsPosted DEF DeleteRows
  <2> QED
    BY <1>1, <1>2, <1>5, <1>7, <2>1, TasksSame DEF WorkerTypeOK
<1>8. CASE /\ Queued(s)
           /\ wk' = [wk EXCEPT ![w] =
                       [Idle EXCEPT !.pc = "ready", !.sid = s,
                                    !.mem = steps[s].status, !.ctr = MaxOrder]]
           /\ UNCHANGED queueVars
  <2>0. PICK idle \in Tasks : idle = Idle
    BY IdleTask
  <2> DEFINE t == [idle EXCEPT !.pc = "ready", !.sid = s,
                               !.mem = steps[s].status, !.ctr = MaxOrder]
  <2>1. steps[s].status \in StepStatuses \cup {"none"} /\ MaxOrder \in Nat
    BY <1>1, MaxOrderBound DEF StoreTypeOK
  <2>2. wk' = [wk EXCEPT ![w] = t]
    BY <1>8, <2>0
  <2>3. t \in Tasks /\ t.pc = "ready" /\ t.sid = s
    BY <2>1 DEF Tasks
  <2> HIDE DEF t
  <2>4. PICK u \in Tasks : u = t
    BY <2>3
  <2>5. Exists(s)'
    BY <1>1, <1>2, <1>8 DEF RowsHeld, StoreKept
  <2>6. wk' = [wk EXCEPT ![w] = u] /\ u.pc = "ready" /\ u.sid = s
    BY <2>2, <2>3, <2>4
  <2>7. wk' \in [Workers -> Tasks] /\ TasksHeld'
    BY <1>1, <1>2, <2>5, <2>6, TaskMoves DEF WorkerTypeOK
  <2> QED
    BY <1>5, <1>8, <2>7, RowsSame
<1> QED
  BY <1>6, <1>7, <1>8 DEF TaskStart

(* The release of the row: on to the next steps, or to the finalization.   *)
LEMMA TaskReleases ==
    ASSUME WorkInv, NEW w \in Workers, Release(w) PROVE WorkerKept
<1>1. /\ StoreTypeOK /\ WorkerTypeOK /\ LauncherHeld /\ TasksHeld
      /\ FinTypeOK /\ FinTold /\ exec' \in ExecStatuses /\ UNCHANGED steps
      /\ UNCHANGED <<launcher, claimed, inbox>>
  BY DEF WorkInv, StoreTypeOK, Release, storeVars
<1>2. StoreKept
  BY <1>1, StepsSame
<1>3. PICK o \in StepIds : o = wk[w].sid /\ Exists(o)
  BY <1>1 DEF TasksHeld, Release
<1>4. RowsKept
  <2>1. Post({o}, {})
    BY <1>3 DEF Release, DeleteRows
  <2> QED
    BY <2>1, RowsPosted
<1>5. LauncherHeld'
  BY <1>1, <1>2, LauncherSame
<1>6. wk \in [Workers -> Tasks] /\ wk[w] \in Tasks
  BY <1>1 DEF WorkerTypeOK
<1>7. ASSUME wk' \in [Workers -> Tasks], TasksHeld', FinTypeOK', FinTold' PROVE WorkerKept
  BY <1>1, <1>2, <1>4, <1>5, <1>7 DEF WorkerKept, WorkerTypeOK
<1>8. CASE wk[w].next = << >>
  <2>1. wk' = [wk EXCEPT ![w] = Idle] /\ StartFinalize(w, wk[w].out)
    BY <1>8 DEF Release
  <2>2. PICK outcome \in Outcomes \cup {"none"} : outcome = wk[w].out
    BY <1>6 DEF Tasks
  <2>3. FinTypeOK' /\ FinTold'
    BY <1>1, <2>1, <2>2, FinStarted DEF Actors
  <2> QED
    BY <1>1, <1>2, <1>6, <1>7, <2>1, <2>3, TaskEnds
<1>9. CASE wk[w].next # << >>
  <2> DEFINE t == [wk[w] EXCEPT !.pc = "enqueue"]
  <2>1. wk' = [wk EXCEPT ![w] = t] /\ UNCHANGED fin
    BY <1>6, <1>9 DEF Release
  <2>2. t \in Tasks /\ t.sid = wk[w].sid /\ t.next = wk[w].next
    BY <1>6 DEF Tasks
  <2> HIDE DEF t
  <2>3. PICK u \in Tasks : u = t
    BY <2>2
  <2>4. Exists(u.sid)' /\ u.sid \in StepIds
    <3>1. u.sid = o
      BY <1>3, <2>2, <2>3
    <3> QED
      BY <1>2, <1>3, <3>1 DEF StoreKept
  <2>5. wk' \in [Workers -> Tasks] /\ TasksHeld'
    BY <1>1, <1>2, <1>6, <1>9, <2>1, <2>2, <2>3, <2>4, TaskMoves
  <2> QED
    BY <1>1, <1>7, <2>1, <2>5, FinSame
<1> QED
  BY <1>8, <1>9

(* Past one target, whichever way: the task still holds its step.          *)
LEMMA TaskAdvances ==
    ASSUME WorkInv, StoreKept, NEW w \in Workers, NEW queued \in BOOLEAN,
           wk[w].pc = "enqueue", Advance(w, queued)
    PROVE  wk' \in [Workers -> Tasks] /\ TasksHeld' /\ FinTypeOK' /\ FinTold'
<1> DEFINE rest == Tail(wk[w].next)
<1> DEFINE enq == wk[w].enq \/ queued
<1> DEFINE ctr == IF queued THEN wk[w].ctr + 1 ELSE wk[w].ctr
<1>1. /\ wk \in [Workers -> Tasks] /\ TasksHeld /\ FinTypeOK /\ FinTold
      /\ wk[w] \in Tasks
  BY DEF WorkInv, WorkerTypeOK
<1>2. CASE rest # << >>
  <2> DEFINE t == [wk[w] EXCEPT !.next = rest, !.enq = enq, !.ctr = ctr]
  <2>1. wk' = [wk EXCEPT ![w] = t] /\ UNCHANGED fin
    BY <1>1, <1>2 DEF Advance
  <2>2. rest \in Seq(Nodes) /\ enq \in BOOLEAN /\ ctr \in Nat
    <3>1. wk[w].next \in Seq(Nodes) /\ wk[w].next # << >>
      BY <1>1 DEF Tasks, TasksHeld
    <3>2. wk[w].ctr \in Nat /\ wk[w].enq \in BOOLEAN
      BY <1>1 DEF Tasks
    <3> QED
      BY <3>1, <3>2
  <2> HIDE DEF rest, enq, ctr
  <2>3. t \in Tasks /\ t.sid = wk[w].sid /\ t.next = rest /\ t.pc = "enqueue"
    BY <1>1, <2>2 DEF Tasks
  <2> HIDE DEF t
  <2>4. PICK u \in Tasks : u = t
    BY <2>3
  <2>5. PICK o \in StepIds : o = wk[w].sid /\ Exists(o)
    BY <1>1 DEF TasksHeld
  <2>6. u.sid = o /\ Exists(o)'
    BY <2>3, <2>4, <2>5 DEF StoreKept
  <2>7. u.sid \in StepIds /\ Exists(u.sid)'
    BY <2>6
  <2>8. wk' \in [Workers -> Tasks] /\ TasksHeld'
    BY <1>1, <1>2, <2>1, <2>3, <2>4, <2>7, TaskMoves
  <2> QED
    BY <1>1, <2>1, <2>8, FinSame
<1>3. CASE rest = << >>
  <2>1. wk' = [wk EXCEPT ![w] = Idle]
    BY <1>3 DEF Advance
  <2>2. UNCHANGED fin \/ StartFinalize(w, wk[w].out)
    BY <1>3 DEF Advance
  <2>3. PICK outcome \in Outcomes \cup {"none"} : outcome = wk[w].out
    BY <1>1 DEF Tasks
  <2>4. FinTypeOK' /\ FinTold'
    BY <1>1, <2>2, <2>3, FinStarted, FinSame DEF Actors
  <2> QED
    BY <1>1, <2>1, <2>4, TaskEnds
<1> QED
  BY <1>2, <1>3

(* _enqueue_next_steps, one target.                                        *)
LEMMA TaskQueues ==
    ASSUME WorkInv, NEW w \in Workers, NextExists(w) \/ NextQueued(w) \/ NextCollides(w)
    PROVE  WorkerKept
<1>1. /\ StoreTypeOK /\ WorkerTypeOK /\ LauncherHeld /\ TasksHeld
      /\ FinTypeOK /\ FinTold /\ exec' \in ExecStatuses
      /\ UNCHANGED <<launcher, claimed, inbox>>
  BY DEF WorkInv, StoreTypeOK, NextExists, NextQueued,
         NextCollides, storeVars
<1>2. wk[w].pc = "enqueue"
  BY DEF NextExists, NextQueued, NextCollides
<1>3. ASSUME StoreKept, RowsKept, wk' \in [Workers -> Tasks], TasksHeld',
             FinTypeOK', FinTold'
      PROVE  WorkerKept
  BY <1>1, <1>3, LauncherSame DEF WorkerKept, WorkerTypeOK
<1>4. CASE NextExists(w)
  <2>1. StoreKept /\ RowsKept
    BY <1>1, <1>4, StepsSame, RowsSame DEF NextExists, storeVars
  <2>2. Advance(w, FALSE)
    BY <1>4 DEF NextExists
  <2> QED
    BY <1>2, <1>3, <2>1, <2>2, TaskAdvances
<1>5. CASE NextQueued(w)
  <2>1. PICK o \in StepIds : o = wk[w].ctr + 1
    BY <1>5 DEF NextQueued
  <2>2. PICK n \in Nodes : n = Head(wk[w].next)
    <3>1. wk[w].next \in Seq(Nodes) /\ wk[w].next # << >>
      BY <1>1, <1>2 DEF WorkerTypeOK, Tasks, TasksHeld
    <3> QED
      BY <3>1
  <2>3. steps' = [steps EXCEPT ![o] = Pending(n)] /\ Post({}, {o})
    BY <1>5, <2>1, <2>2 DEF NextQueued, EnqueueRow
  <2>4. StoreKept /\ Exists(o)'
    BY <1>1, <2>3, StepAdded
  <2>5. RowsKept
    BY <2>3, <2>4, RowsPosted
  <2>6. Advance(w, TRUE)
    BY <1>5 DEF NextQueued
  <2> QED
    BY <1>2, <1>3, <2>4, <2>5, <2>6, TaskAdvances
<1>6. CASE NextCollides(w)
  <2>1. StoreKept /\ RowsKept
    BY <1>1, <1>6, StepsSame, RowsSame DEF NextCollides, storeVars
  <2>2. wk' \in [Workers -> Tasks] /\ TasksHeld'
    BY <1>1, <1>6, <2>1, TaskEnds DEF NextCollides, WorkerTypeOK
  <2>3. FinTypeOK' /\ FinTold'
    BY <1>1, <1>6, FinSame DEF NextCollides
  <2> QED
    BY <1>3, <2>1, <2>2, <2>3
<1> QED
  BY <1>4, <1>5, <1>6

(* Every step of the launcher, the claimers and the tasks.                 *)
LEMMA WorkerStep == WorkInv /\ WorkerNext => WorkerKept
<1> SUFFICES ASSUME WorkInv, WorkerNext PROVE WorkerKept
  OBVIOUS
<1>1. /\ StoreTypeOK /\ WorkerTypeOK /\ LauncherHeld /\ TasksHeld
      /\ FinTypeOK /\ FinTold
  BY DEF WorkInv
<1>2. ASSUME NEW w \in Workers, Task(w) PROVE WorkerKept
  BY <1>2, TaskBegins, SingleStep, TaskReleases, TaskQueues DEF Task
<1>3. ASSUME NEW w \in Workers, WorkerFinalize(w) PROVE WorkerKept
  <2>1. StoreKept /\ RowsKept /\ FinTypeOK' /\ FinTold'
    BY <1>1, <1>3, FinalizeStep DEF WorkerFinalize, Actors
  <2>2. WorkerTypeOK' /\ LauncherHeld' /\ TasksHeld'
    BY <1>1, <1>3, <2>1, LauncherSame, TasksSame
       DEF WorkerFinalize, WorkerTypeOK
  <2> QED
    BY <2>1, <2>2 DEF WorkerKept
<1>4. ASSUME NEW w \in Workers, WorkerCrash(w) PROVE WorkerKept
  <2>1. exec' \in ExecStatuses /\ UNCHANGED steps /\ UNCHANGED queueVars
    BY <1>1, <1>4 DEF WorkerCrash, storeVars, StoreTypeOK
  <2>2. StoreKept /\ RowsKept
    BY <1>1, <2>1, StepsSame, RowsSame
  <2>3. FinTypeOK' /\ FinTold'
    BY <1>1, <1>4, FinStopped DEF WorkerCrash, Actors
  <2>4. wk' \in [Workers -> Tasks] /\ TasksHeld'
    BY <1>1, <1>4, <2>2, TaskEnds DEF WorkerCrash, WorkerTypeOK
  <2>5. WorkerTypeOK' /\ LauncherHeld'
    BY <1>1, <1>4, <2>2, <2>4, LauncherSame DEF WorkerCrash, WorkerTypeOK
  <2> QED
    BY <2>2, <2>3, <2>4, <2>5 DEF WorkerKept
<1> QED
  BY <1>2, <1>3, <1>4, LauncherStep, ClaimStep DEF WorkerNext
-----------------------------------------------------------------------------
Begun == {"begun", "running", "release", "enqueue"}

LEMMA AdvanceStays ==
    ASSUME WorkInv, NEW w \in Workers, NEW queued \in BOOLEAN, wk[w].pc = "enqueue",
           Advance(w, queued)
    PROVE  /\ \A v \in Workers \ {w} : wk'[v] = wk[v]
           /\ wk'[w].pc # "idle" =>
                 wk[w].pc \in Begun /\ wk'[w].sid = wk[w].sid
<1>0. wk \in [Workers -> Tasks] /\ wk[w] \in Tasks /\ Idle.pc = "idle"
  BY IdleTask DEF WorkInv, WorkerTypeOK
<1>1. CASE Tail(wk[w].next) # << >>
  <2>1. wk' = [wk EXCEPT ![w] = [wk[w] EXCEPT
                  !.next = Tail(wk[w].next), !.enq = (wk[w].enq \/ queued),
                  !.ctr = IF queued THEN wk[w].ctr + 1 ELSE wk[w].ctr]]
    BY <1>0, <1>1 DEF Advance
  <2>2. wk'[w].sid = wk[w].sid /\ \A v \in Workers \ {w} : wk'[v] = wk[v]
    BY <1>0, <2>1 DEF Tasks
  <2> QED
    BY <2>2 DEF Begun
<1>2. CASE Tail(wk[w].next) = << >>
  <2>1. wk' = [wk EXCEPT ![w] = Idle]
    BY <1>2 DEF Advance
  <2> QED
    BY <1>0, <2>1
<1> QED
  BY <1>1, <1>2

StepsStay == \A o \in StepIds : Exists(o) => Exists(o)'

-----------------------------------------------------------------------------
(* What a task does to its own state and to its step, field by field:  *)
(* what the theorems about Engine are proved from.                         *)

Alone(w) == \A v \in Workers \ {w} : wk'[v] = wk[v]

(* Step o takes a status and the other steps stay; step o is new.          *)
StepTurns(o, status) ==
    /\ steps'[o].status = status /\ steps'[o].node = steps[o].node
    /\ \A q \in StepIds \ {o} : steps'[q] = steps[q]

StepComes(o, n) ==
    /\ ~Exists(o)
    /\ steps'[o].status = "PENDING" /\ steps'[o].node = n
    /\ \A q \in StepIds \ {o} : steps'[q] = steps[q]

Busy == {"ready", "begun", "running"}

(* The message is used up and no task begins, or one does.                 *)
Dropped(s) ==
    /\ UNCHANGED <<exec, steps, fin, wk>>
    /\ Queued(s) => steps[s].status \in {"COMPLETED", "FAILED", "SKIPPED"}
                    \/ exec # "RUNNING"
    /\ UNCHANGED queueVars \/ DeleteRows({s})

Started(w, s) ==
    /\ UNCHANGED <<exec, steps, fin, rows>>
    /\ exec = "RUNNING" /\ fin[w] = Off /\ wk[w].pc = "idle" /\ inbox[s] > 0
    /\ Exists(s) /\ steps[s].status \notin {"COMPLETED", "FAILED", "SKIPPED"}
    /\ wk'[w].pc = "ready" /\ wk'[w].sid = s /\ wk'[w].mem = steps[s].status
    /\ wk'[w].ctr = MaxOrder /\ wk'[w].next = << >>
    /\ Alone(w)

(* The step begins; it is not cancelled; it ends.                          *)
Begins(w) ==
    /\ UNCHANGED <<exec, fin, rows>>
    /\ wk[w].pc = "ready" /\ wk[w].mem \in {"PENDING", "none"}
    /\ StepTurns(wk[w].sid, "RUNNING")
    /\ wk'[w].pc = "begun" /\ wk'[w].mem = "RUNNING"
    /\ wk'[w].sid = wk[w].sid /\ wk'[w].ctr = wk[w].ctr /\ wk'[w].next = wk[w].next
    /\ Alone(w)

GoesOn(w) ==
    /\ UNCHANGED <<exec, steps, fin, rows>>
    /\ wk[w].pc = "begun" /\ exec # "CANCELLED"
    /\ wk'[w].pc = "running" /\ wk'[w].mem = wk[w].mem
    /\ wk'[w].sid = wk[w].sid /\ wk'[w].ctr = wk[w].ctr /\ wk'[w].next = wk[w].next
    /\ Alone(w)

(* How a step may end, and what is queued after it.                        *)
EndsAs(w, status, next) ==
    \/ /\ status = "SKIPPED" /\ wk[w].pc = "ready"
       /\ wk[w].mem \in {"PENDING", "none"}
       /\ next = NextStepIds(Workflow, NodeOf(w), "COMPLETED")
    \/ /\ status = "COMPLETED" /\ wk[w].pc = "running"
       /\ Workflow[NodeOf(w)].kind = "task"
       /\ next = NextStepIds(Workflow, NodeOf(w), "COMPLETED")
    \/ /\ status = "WAITING" /\ wk[w].pc = "running"
       /\ Workflow[NodeOf(w)].kind = "gate"
       /\ next = << >>
    \/ /\ status = "FAILED" /\ wk[w].pc \in Busy
       /\ next \in {<< >>, Workflow[NodeOf(w)].error}
       /\ next # << >> => wk[w].pc = "running"

Ends(w) ==
    /\ UNCHANGED <<exec, fin, rows>>
    /\ wk[w].pc \in Busy
    /\ EndsAs(w, wk'[w].mem, wk'[w].next)
    /\ StepTurns(wk[w].sid, wk'[w].mem)
    /\ wk'[w].pc = "release"
    /\ wk'[w].sid = wk[w].sid /\ wk'[w].ctr = wk[w].ctr
    /\ Alone(w)

(* The row is released, with nothing or something to queue.                *)
Finishes(w) ==
    /\ UNCHANGED <<exec, steps>>
    /\ wk[w].pc = "release" /\ wk[w].next = << >>
    /\ DeleteRows({wk[w].sid})
    /\ wk'[w] = Idle
    /\ fin'[w].pc = "active" /\ \A a \in Actors \ {w} : fin'[a] = fin[a]
    /\ Alone(w)

GoesToQueue(w) ==
    /\ UNCHANGED <<exec, steps, fin>>
    /\ wk[w].pc = "release" /\ wk[w].next # << >>
    /\ DeleteRows({wk[w].sid})
    /\ wk'[w].pc = "enqueue" /\ wk'[w].sid = wk[w].sid
    /\ wk'[w].ctr = wk[w].ctr /\ wk'[w].next = wk[w].next
    /\ Alone(w)

(* Past one target: to the next, or to the end.                            *)
Moves(w, by) ==
    /\ wk[w].pc = "enqueue" /\ Alone(w)
    /\ \/ /\ Tail(wk[w].next) # << >>
          /\ wk'[w].pc = "enqueue" /\ wk'[w].sid = wk[w].sid
          /\ wk'[w].next = Tail(wk[w].next) /\ wk'[w].ctr = wk[w].ctr + by
          /\ UNCHANGED fin
       \/ /\ Tail(wk[w].next) = << >>
          /\ wk'[w] = Idle
          /\ \/ UNCHANGED fin
             \/ fin'[w].pc = "active" /\ \A a \in Actors \ {w} : fin'[a] = fin[a]

Passes(w) ==
    /\ UNCHANGED <<exec, steps, rows>>
    /\ ExistsActive(Head(wk[w].next))
    /\ Moves(w, 0)

Queues(w) ==
    /\ UNCHANGED exec
    /\ ~ExistsActive(Head(wk[w].next))
    /\ wk[w].ctr + 1 \in StepIds
    /\ StepComes(wk[w].ctr + 1, Head(wk[w].next))
    /\ EnqueueRow(wk[w].ctr + 1)
    /\ Moves(w, 1)

(* The step_order was taken, or the task dies.                             *)
Collides(w) ==
    /\ NextCollides(w)
    /\ UNCHANGED <<exec, steps, fin, rows>>
    /\ wk[w].pc = "enqueue" /\ wk[w].ctr + 1 \in StepIds /\ Exists(wk[w].ctr + 1)
    /\ wk'[w] = Idle /\ Alone(w)

Dies(w) ==
    /\ "workerCrash" \in Allowed
    /\ UNCHANGED <<exec, steps, rows>>
    /\ wk'[w] = Idle /\ Alone(w)
    /\ fin'[w] = Off /\ \A a \in Actors \ {w} : fin'[a] = fin[a]

TaskForm(w) ==
    \/ \E s \in StepIds : Dropped(s) \/ Started(w, s)
    \/ Begins(w) \/ GoesOn(w) \/ Ends(w) \/ Finishes(w) \/ GoesToQueue(w)
    \/ Passes(w) \/ Queues(w) \/ Collides(w)

LEMMA TaskFormed ==
    ASSUME WorkInv, NEW w \in Workers, Task(w) PROVE TaskForm(w)
<1>1. /\ wk \in [Workers -> Tasks] /\ wk[w] \in Tasks
      /\ fin \in [Actors -> [pc : {"off", "active", "waiting", "failed",
                                   "refresh", "cas"},
                             out : Outcomes \cup {"none"}]]
      /\ w \in Actors
      /\ steps \in [StepIds -> [node : Nodes \cup {NoNode},
                                status : StepStatuses \cup {"none"}]]
      /\ wk[w].pc # "idle" => wk[w].sid \in StepIds /\ Exists(wk[w].sid)
  BY DEF WorkInv, WorkerTypeOK, FinTypeOK, StoreTypeOK, Actors, TasksHeld
<1>2. ASSUME NEW s \in StepIds, TaskStart(w, s) PROVE TaskForm(w)
  <2>1. CASE ~Queued(s) /\ UNCHANGED <<queueVars, wk>>
    BY <1>2, <2>1 DEF TaskStart, TaskForm, Dropped, storeVars
  <2>2. CASE /\ Queued(s) /\ UNCHANGED wk /\ DeleteRows({s})
             /\ steps[s].status \in {"COMPLETED", "FAILED", "SKIPPED"} \/ exec # "RUNNING"
    BY <1>2, <2>2 DEF TaskStart, TaskForm, Dropped, storeVars
  <2>3. CASE /\ Queued(s) /\ exec = "RUNNING"
             /\ steps[s].status \notin {"COMPLETED", "FAILED", "SKIPPED"}
             /\ wk' = [wk EXCEPT ![w] =
                         [Idle EXCEPT !.pc = "ready", !.sid = s,
                                      !.mem = steps[s].status, !.ctr = MaxOrder]]
             /\ UNCHANGED queueVars
    <3>1. /\ wk'[w].pc = "ready" /\ wk'[w].sid = s /\ wk'[w].mem = steps[s].status
          /\ wk'[w].ctr = MaxOrder /\ wk'[w].next = << >> /\ Alone(w)
      BY <1>1, <2>3 DEF Idle, Alone
    <3>2. Exists(s)
      BY <2>3 DEF WorkInv, RowsHeld
    <3>3. /\ UNCHANGED <<exec, steps, fin, rows>>
          /\ fin[w] = Off /\ wk[w].pc = "idle" /\ inbox[s] > 0
      BY <1>2, <2>3 DEF TaskStart, storeVars, queueVars
    <3>4. Started(w, s)
      BY <2>3, <3>1, <3>2, <3>3 DEF Started
    <3> QED
      BY <3>4 DEF TaskForm
  <2> QED
    BY <1>2, <2>1, <2>2, <2>3 DEF TaskStart
<1>3. ASSUME NEW status, NEW outcome, NEW next, EndStep(w, status, outcome, next),
             wk[w].pc \in Busy, EndsAs(w, status, next)
      PROVE  TaskForm(w)
  <2>1. /\ wk'[w].pc = "release" /\ wk'[w].mem = status /\ wk'[w].next = next
        /\ wk'[w].sid = wk[w].sid /\ wk'[w].ctr = wk[w].ctr /\ Alone(w)
    BY <1>1, <1>3 DEF EndStep, Tasks, Alone
  <2>2. StepTurns(wk[w].sid, status)
    BY <1>1, <1>3 DEF EndStep, SetStep, StepTurns, Busy
  <2>3. UNCHANGED <<exec, fin, rows>>
    BY <1>3 DEF EndStep, queueVars
  <2> QED
    BY <1>3, <2>1, <2>2, <2>3 DEF TaskForm, Ends
<1>4. "FAILED" # "SKIPPED"
  OBVIOUS
<1>5. CASE BuildFails(w) \/ BeginRefused(w) \/ (CheckCancelled(w) /\ exec = "CANCELLED")
  <2>1. wk[w].pc \in Busy /\ EndsAs(w, "FAILED", << >>)
    BY <1>5 DEF BuildFails, BeginRefused, CheckCancelled, EndsAs, Busy
  <2> QED
    BY <1>3, <1>5, <2>1 DEF BuildFails, BeginRefused, CheckCancelled
<1>6. CASE SkipStep(w)
  <2>1. wk[w].pc = "ready" /\ wk[w].mem \in {"PENDING", "none"}
    <3>1. LegalStep(wk[w].mem, "SKIPPED") => wk[w].mem \in {"PENDING", "none"}
      BY <1>1 DEF LegalStep, StepTransitions, StepStatuses, Tasks
    <3> QED
      BY <1>6, <3>1 DEF SkipStep
  <2>2. wk[w].pc \in Busy /\ EndsAs(w, "SKIPPED", NextOf(w, "COMPLETED"))
    BY <2>1 DEF EndsAs, NextOf, Busy
  <2> QED
    BY <1>3, <1>6, <2>2 DEF SkipStep
<1>7. CASE FinishStep(w)
  <2>1. PICK outcome \in {"COMPLETED", "FAILED", "CANCELLED"} :
           EndStep(w, IF outcome = "COMPLETED" THEN "COMPLETED" ELSE "FAILED",
                   outcome, NextOf(w, outcome))
    BY <1>7 DEF FinishStep
  <2>2. wk[w].pc = "running" /\ wk[w].pc \in Busy /\ Workflow[NodeOf(w)].kind = "task"
    BY <1>7 DEF FinishStep, Busy
  <2>3. CASE outcome = "COMPLETED"
    <3>1. EndsAs(w, "COMPLETED", NextOf(w, outcome))
      BY <2>2, <2>3 DEF EndsAs, NextOf
    <3> QED
      BY <1>3, <2>1, <2>2, <2>3, <3>1
  <2>4. CASE outcome # "COMPLETED"
    <3>1. NextOf(w, outcome) = Workflow[NodeOf(w)].error
      BY <2>4 DEF NextOf, NextStepIds
    <3>2. EndsAs(w, "FAILED", NextOf(w, outcome))
      BY <2>2, <3>1 DEF EndsAs
    <3> QED
      BY <1>3, <2>1, <2>2, <2>4, <3>2
  <2> QED
    BY <2>3, <2>4
<1>8. CASE BreakStep(w)
  <2>1. wk[w].pc \in Busy /\ EndsAs(w, "FAILED", << >>)
    BY <1>8 DEF BreakStep, EndsAs, Busy
  <2> QED
    BY <1>3, <1>8, <2>1 DEF BreakStep
<1>9. CASE OpenGate(w)
  <2>1. wk[w].pc \in Busy /\ EndsAs(w, "WAITING", << >>)
    BY <1>9 DEF OpenGate, EndsAs, Busy
  <2> QED
    BY <1>3, <1>9, <2>1 DEF OpenGate
<1>10. CASE BeginStep(w)
  <2>1. wk[w].mem \in {"PENDING", "none"}
    <3>1. LegalStep(wk[w].mem, "RUNNING") => wk[w].mem \in {"PENDING", "none"}
      BY <1>1 DEF LegalStep, StepTransitions, StepStatuses, Tasks
    <3> QED
      BY <1>10, <3>1 DEF BeginStep
  <2>2. /\ wk'[w].pc = "begun" /\ wk'[w].mem = "RUNNING" /\ wk'[w].sid = wk[w].sid
        /\ wk'[w].ctr = wk[w].ctr /\ wk'[w].next = wk[w].next /\ Alone(w)
    BY <1>1, <1>10 DEF BeginStep, Tasks, Alone
  <2>3. StepTurns(wk[w].sid, "RUNNING")
    BY <1>1, <1>10 DEF BeginStep, SetStep, StepTurns
  <2>4. wk[w].pc = "ready" /\ UNCHANGED <<exec, fin, rows>>
    BY <1>10 DEF BeginStep, queueVars
  <2> QED
    BY <2>1, <2>2, <2>3, <2>4 DEF TaskForm, Begins
<1>11. CASE CheckCancelled(w) /\ exec # "CANCELLED"
  <2>1. wk' = [wk EXCEPT ![w].pc = "running"] /\ wk[w].pc = "begun"
        /\ UNCHANGED <<exec, steps, fin, rows>>
    BY <1>11 DEF CheckCancelled, storeVars, queueVars
  <2>2. /\ wk'[w].pc = "running" /\ wk'[w].mem = wk[w].mem /\ wk'[w].sid = wk[w].sid
        /\ wk'[w].ctr = wk[w].ctr /\ wk'[w].next = wk[w].next /\ Alone(w)
    BY <1>1, <2>1 DEF Tasks, Alone
  <2> QED
    BY <1>11, <2>1, <2>2 DEF TaskForm, GoesOn
<1>12. ASSUME StartFinalize(w, wk[w].out)
       PROVE  fin'[w].pc = "active" /\ \A a \in Actors \ {w} : fin'[a] = fin[a]
  BY <1>1, <1>12 DEF StartFinalize
<1>13. ASSUME wk' = [wk EXCEPT ![w] = Idle] PROVE wk'[w] = Idle /\ Alone(w)
  BY <1>1, <1>13 DEF Alone
<1>14. CASE Release(w)
  <2>1. wk[w].pc = "release" /\ DeleteRows({wk[w].sid}) /\ UNCHANGED <<exec, steps>>
    BY <1>14 DEF Release, storeVars
  <2>2. CASE wk[w].next = << >>
    <3>1. wk'[w] = Idle /\ Alone(w)
      BY <1>13, <1>14, <2>2 DEF Release
    <3>2. fin'[w].pc = "active" /\ \A a \in Actors \ {w} : fin'[a] = fin[a]
      BY <1>12, <1>14, <2>2 DEF Release
    <3> QED
      BY <2>1, <2>2, <3>1, <3>2 DEF TaskForm, Finishes
  <2>3. CASE wk[w].next # << >>
    <3>1. wk' = [wk EXCEPT ![w].pc = "enqueue"] /\ UNCHANGED fin
      BY <1>14, <2>3 DEF Release
    <3>2. /\ wk'[w].pc = "enqueue" /\ wk'[w].sid = wk[w].sid
          /\ wk'[w].ctr = wk[w].ctr /\ wk'[w].next = wk[w].next /\ Alone(w)
      BY <1>1, <3>1 DEF Tasks, Alone
    <3> QED
      BY <2>1, <2>3, <3>1, <3>2 DEF TaskForm, GoesToQueue
  <2> QED
    BY <2>2, <2>3
<1>15. ASSUME wk[w].pc = "enqueue", NEW queued \in BOOLEAN, Advance(w, queued)
       PROVE  Moves(w, IF queued THEN 1 ELSE 0)
  <2>1. CASE Tail(wk[w].next) # << >>
    <3>1. /\ wk' = [wk EXCEPT ![w].next = Tail(wk[w].next), ![w].enq = wk[w].enq \/ queued,
                              ![w].ctr = IF queued THEN @ + 1 ELSE @]
          /\ UNCHANGED fin
      BY <1>15, <2>1 DEF Advance
    <3>2. wk[w].ctr \in Nat
      BY <1>1 DEF Tasks
    <3>3. /\ wk'[w].pc = wk[w].pc /\ wk'[w].sid = wk[w].sid
          /\ wk'[w].next = Tail(wk[w].next) /\ Alone(w)
      BY <1>1, <3>1 DEF Tasks, Alone
    <3>4. wk'[w].ctr = IF queued THEN wk[w].ctr + 1 ELSE wk[w].ctr
      BY <1>1, <3>1 DEF Tasks
    <3> QED
      BY <1>15, <2>1, <3>1, <3>2, <3>3, <3>4 DEF Moves
  <2>2. CASE Tail(wk[w].next) = << >>
    <3>1. wk'[w] = Idle /\ Alone(w)
      BY <1>13, <1>15, <2>2 DEF Advance
    <3>2. \/ UNCHANGED fin
          \/ fin'[w].pc = "active" /\ \A a \in Actors \ {w} : fin'[a] = fin[a]
      BY <1>12, <1>15, <2>2 DEF Advance
    <3> QED
      BY <1>15, <2>2, <3>1, <3>2 DEF Moves
  <2> QED
    BY <2>1, <2>2
<1>16. CASE NextExists(w)
  <2>1. FALSE \in BOOLEAN /\ wk[w].pc = "enqueue" /\ Advance(w, FALSE)
        /\ UNCHANGED <<exec, steps, rows>> /\ ExistsActive(Head(wk[w].next))
    BY <1>16 DEF NextExists, storeVars, queueVars
  <2>2. Moves(w, IF FALSE THEN 1 ELSE 0)
    BY <1>15, <2>1
  <2> QED
    BY <2>1, <2>2 DEF TaskForm, Passes
<1>17. CASE NextQueued(w)
  <2>1. TRUE \in BOOLEAN /\ wk[w].pc = "enqueue" /\ Advance(w, TRUE)
    BY <1>17 DEF NextQueued
  <2>2. Moves(w, IF TRUE THEN 1 ELSE 0)
    BY <1>15, <2>1
  <2>3. /\ UNCHANGED exec /\ ~ExistsActive(Head(wk[w].next))
        /\ wk[w].ctr + 1 \in StepIds /\ EnqueueRow(wk[w].ctr + 1)
    BY <1>17 DEF NextQueued
  <2>4. StepComes(wk[w].ctr + 1, Head(wk[w].next))
    BY <1>1, <1>17 DEF NextQueued, StepComes, Pending
  <2> QED
    BY <2>2, <2>3, <2>4 DEF TaskForm, Queues
<1>18. CASE NextCollides(w)
  <2>1. wk'[w] = Idle /\ Alone(w)
    BY <1>13, <1>18 DEF NextCollides
  <2> QED
    BY <1>18, <2>1 DEF NextCollides, TaskForm, Collides, storeVars, queueVars
<1> QED
  BY <1>2, <1>5, <1>6, <1>7, <1>8, <1>9, <1>10, <1>11, <1>14, <1>16, <1>17,
     <1>18 DEF Task

LEMMA CrashFormed ==
    ASSUME WorkInv, NEW w \in Workers, WorkerCrash(w) PROVE Dies(w)
<1>1. wk \in [Workers -> Tasks] /\ w \in Actors /\ DOMAIN fin = Actors
  BY DEF WorkInv, WorkerTypeOK, FinTypeOK, Actors
<1> QED
  BY <1>1 DEF WorkerCrash, Dies, Alone, storeVars, queueVars

LEMMA FinalizeMoves ==
    ASSUME FinTypeOK, FinTold, NEW a \in Actors, Finalize(a)
    PROVE  /\ UNCHANGED <<steps, queueVars>>
           /\ \/ exec' = exec
              \/ /\ exec \notin {"COMPLETED", "FAILED", "CANCELLED"}
                 /\ exec' \in {"COMPLETED", "FAILED", "CANCELLED"}
BY
   DEF Finalize, FinActive, FinWaiting, FinFailed, FinRefresh, FinCas,
       storeVars, FinTold

LEMMA ClaimKeeps ==
    ASSUME \/ \E c \in Claimers : Claim(c) \/ ClaimerCrash(c)
           \/ \E c \in Claimers, s \in StepIds : Dispatch(c, s)
           \/ \E s \in StepIds : LeaseRunsOut(s)
           \/ Reclaim
    PROVE  UNCHANGED <<exec, steps, fin, launcher, wk>>
BY
   DEF Claim, ClaimerCrash, Dispatch, LeaseRunsOut, Reclaim, storeVars,
       workerVars

(* Existing steps keep their node.                                         *)
NodesStay == \A o \in StepIds : Exists(o) => Exists(o)' /\ steps'[o].node = steps[o].node

(* The nodes of the steps, whatever a task does.                           *)
LEMMA TaskNodesStay ==
    ASSUME WorkInv, NEW w \in Workers, Task(w) PROVE NodesStay
<1>1. StepsStay
  <2>1. WorkerNext
    BY DEF WorkerNext
  <2> QED
    BY <2>1, WorkerStep DEF WorkerKept, StoreKept, StepsStay
<1>2. TaskForm(w)
  BY TaskFormed
<1>3. \A o \in StepIds : Exists(o) => steps'[o].node = steps[o].node
  <2>1. ASSUME NEW status, StepTurns(wk[w].sid, status)
        PROVE  \A o \in StepIds : Exists(o) => steps'[o].node = steps[o].node
    BY <2>1 DEF StepTurns
  <2>2. ASSUME NEW n, StepComes(wk[w].ctr + 1, n)
        PROVE  \A o \in StepIds : Exists(o) => steps'[o].node = steps[o].node
    BY <2>2 DEF StepComes
  <2> QED
    BY <1>2, <2>1, <2>2
       DEF TaskForm, Dropped, Started, Begins, GoesOn, Ends, Finishes,
       GoesToQueue, Passes, Queues, Collides
<1> QED
  BY <1>1, <1>3 DEF NodesStay, StepsStay
=============================================================================
