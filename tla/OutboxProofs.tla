---------------------------- MODULE OutboxProofs ----------------------------
(***************************************************************************)
(* The event log has no gap and a client misses nothing, and what the      *)
(* outbox says is dispatched was delivered: for every number of changes,   *)
(* entries and overlapping dispatchers.  The invariant has three parts:    *)
(* the log and the drafts of those who hold the counter; the dispatchers   *)
(* and their locks; the client.                                            *)
(***************************************************************************)
EXTENDS Outbox, FiniteSetTheorems, TLAPS

(* The events of S carry the numbers after c, each once.                   *)
Numbering(S, c) ==
    /\ IsFiniteSet(S)
    /\ \A ev \in S : ev.seq \in (c + 1) .. (c + Cardinality(S))
    /\ \A n \in (c + 1) .. (c + Cardinality(S)) : \E ev \in S : ev.seq = n
    /\ \A e1, e2 \in S : e1.seq = e2.seq => e1 = e2

LEMMA NumberingEmpty ==
    ASSUME NEW c \in Nat
    PROVE  Numbering({}, c)
BY FS_EmptySet DEF Numbering

LEMMA NumberingCount ==
    ASSUME NEW S, NEW c \in Nat, Numbering(S, c)
    PROVE  Cardinality(S) \in Nat /\ (S = {} <=> Cardinality(S) = 0)
BY FS_CardinalityType, FS_EmptySet DEF Numbering

LEMMA NumberingAdd ==
    ASSUME NEW S, NEW c \in Nat, Numbering(S, c),
           NEW x, x.seq = c + Cardinality(S) + 1
    PROVE  Numbering(S \cup {x}, c) /\ Cardinality(S \cup {x}) = Cardinality(S) + 1
<1>1. Cardinality(S) \in Nat
  BY NumberingCount
<1>2. x \notin S
  BY <1>1 DEF Numbering
<1>3. IsFiniteSet(S \cup {x}) /\ Cardinality(S \cup {x}) = Cardinality(S) + 1
  BY <1>2, FS_AddElement DEF Numbering
<1>4. ASSUME NEW n \in (c + 1) .. (c + Cardinality(S) + 1)
      PROVE  \E ev \in S \cup {x} : ev.seq = n
  BY <1>1 DEF Numbering
<1>5. \A ev \in S \cup {x} : ev.seq \in (c + 1) .. (c + Cardinality(S) + 1)
  BY <1>1 DEF Numbering
<1>6. \A e1, e2 \in S \cup {x} : e1.seq = e2.seq => e1 = e2
  BY <1>1 DEF Numbering
<1> QED
  BY <1>1, <1>3, <1>4, <1>5, <1>6 DEF Numbering

LEMMA NumberingDrop ==
    ASSUME NEW S, NEW c \in Nat, Numbering(S, c),
           NEW x \in S, x.seq = c + Cardinality(S)
    PROVE  Numbering(S \ {x}, c)
<1>1. Cardinality(S) \in Nat
  BY NumberingCount
<1>2. IsFiniteSet(S \ {x}) /\ Cardinality(S \ {x}) = Cardinality(S) - 1
  BY FS_RemoveElement DEF Numbering
<1>3. \A ev \in S \ {x} : ev.seq \in (c + 1) .. (c + Cardinality(S) - 1)
  BY <1>1 DEF Numbering
<1>4. ASSUME NEW n \in (c + 1) .. (c + Cardinality(S) - 1)
      PROVE  \E ev \in S \ {x} : ev.seq = n
  BY <1>1 DEF Numbering
<1>5. c + Cardinality(S \ {x}) = c + Cardinality(S) - 1
  BY <1>1, <1>2
<1> QED
  BY <1>2, <1>3, <1>4, <1>5 DEF Numbering
-----------------------------------------------------------------------------
Topics == Emitters \cup Entries

Events == [seq : Nat, of : Topics, by : Txs]

EmitStates == {"idle", "emit", "create", "appended", "raised"}

LogTypeOK ==
    /\ row \in BOOLEAN /\ counter \in Nat /\ holder \in Txs \cup {NoTx}
    /\ log \subseteq Events
    /\ draft \in [Txs -> SUBSET Events]
    /\ em \in [Txs -> [pc : EmitStates, of : Topics \cup {NoTx}]]

(* A transaction that wrote an event holds the counter.                    *)
DraftsHeld == \A t \in Txs : draft[t] # {} => holder = t

(* Its events follow the counter; they are its own, one for each topic.    *)
DraftsNumbered == \A t \in Txs :
    /\ Numbering(draft[t], counter)
    /\ \A ev \in draft[t] : ev.by = t
    /\ \A e1, e2 \in draft[t] : e1.of = e2.of => e1 = e2

(* emit() appends one event, the last of the draft.                        *)
EmitsOnce == \A t \in Txs :
    /\ em[t].pc = "idle" => em[t] = Quiet
    /\ em[t].pc # "idle" => em[t].of \in Topics
    /\ em[t].pc \in {"emit", "create", "raised"} => \A ev \in draft[t] : ev.of # em[t].of
    /\ em[t].pc = "appended" =>
          \E ev \in draft[t] : ev.of = em[t].of /\ ev.seq = counter + Cardinality(draft[t])

(* A change announces itself, in a transaction of its own.                 *)
ChangesOwn == \A t \in Emitters :
    /\ em[t].pc = "idle" => draft[t] = {}
    /\ em[t].pc # "idle" => em[t].of = t
    /\ \A ev \in draft[t] : ev.of = t

LogNumbered ==
    /\ \A ev \in log : ev.seq \in 1 .. counter
    /\ \A n \in 1 .. counter : \E ev \in log : ev.seq = n
    /\ \A e1, e2 \in log : e1.seq = e2.seq => e1 = e2

LogInv == LogTypeOK /\ DraftsHeld /\ DraftsNumbered /\ EmitsOnce /\ ChangesOwn /\ LogNumbered

LEMMA Apart == /\ Emitters \subseteq Txs /\ Dispatchers \subseteq Txs
               /\ Emitters \cap Dispatchers = {} /\ NoTx \notin Txs
               /\ Entries \cap (Txs \cup {NoTx}) = {} /\ 0 \notin Entries
               /\ StatusChanges \cap StepChanges = {}
BY EventAssumption, OutboxAssumption DEF Emitters, Txs

LEMMA QuietFacts == /\ Quiet \in [pc : EmitStates, of : Topics \cup {NoTx}]
                    /\ Quiet.pc = "idle" /\ Quiet.of = NoTx
BY DEF Quiet, EmitStates

LEMMA LogInitHolds == LogInit => LogInv
<1> SUFFICES ASSUME LogInit PROVE LogInv
  OBVIOUS
<1>1. LogTypeOK
  BY QuietFacts DEF LogInit, LogTypeOK
<1>2. DraftsHeld /\ EmitsOnce /\ ChangesOwn /\ LogNumbered
  BY QuietFacts, Apart DEF LogInit, DraftsHeld, EmitsOnce, ChangesOwn, LogNumbered
<1>3. DraftsNumbered
  BY NumberingEmpty DEF LogInit, DraftsNumbered
<1> QED
  BY <1>1, <1>2, <1>3 DEF LogInv

(* Whoever may lock the counter finds no draft but its own.                *)
LEMMA Append1 ==
    ASSUME LogInv, NEW t \in Txs, em[t].pc \in {"emit", "create"},
           holder \in {NoTx, t}, holder' = t, Append(t),
           UNCHANGED <<row, counter, log>>
    PROVE  LogInv'
<1> DEFINE x == [seq |-> counter + Cardinality(draft[t]) + 1, of |-> em[t].of, by |-> t]
<1>1. /\ counter \in Nat /\ draft \in [Txs -> SUBSET Events]
      /\ em \in [Txs -> [pc : EmitStates, of : Topics \cup {NoTx}]]
      /\ Numbering(draft[t], counter) /\ Cardinality(draft[t]) \in Nat
  BY NumberingCount DEF LogInv, LogTypeOK, DraftsNumbered
<1>2. em[t].of \in Topics /\ \A ev \in draft[t] : ev.of # em[t].of
  BY DEF LogInv, EmitsOnce
<1>3. x \in Events /\ x.seq = counter + Cardinality(draft[t]) + 1 /\ x.of = em[t].of /\ x.by = t
  BY <1>1, <1>2 DEF Events
<1>4. /\ draft' = [draft EXCEPT ![t] = draft[t] \cup {x}]
      /\ em' = [em EXCEPT ![t].pc = "appended"]
  BY DEF Append
<1> HIDE DEF x
<1>5. /\ draft'[t] = draft[t] \cup {x} /\ \A u \in Txs : u # t => draft'[u] = draft[u]
      /\ em'[t].pc = "appended" /\ em'[t].of = em[t].of
      /\ \A u \in Txs : u # t => em'[u] = em[u]
  BY <1>1, <1>4
<1>6. \A u \in Txs : u # t => draft[u] = {}
  BY Apart DEF LogInv, DraftsHeld
<1>7. Numbering(draft[t] \cup {x}, counter) /\ Cardinality(draft[t] \cup {x}) = Cardinality(draft[t]) + 1
  BY <1>1, <1>3, NumberingAdd
<1>8. LogTypeOK'
  <2>1. draft' \in [Txs -> SUBSET Events]
    BY <1>1, <1>3, <1>4
  <2>2. em' \in [Txs -> [pc : EmitStates, of : Topics \cup {NoTx}]]
    BY <1>1, <1>4 DEF EmitStates
  <2> QED
    BY <2>1, <2>2 DEF LogInv, LogTypeOK
<1>9. DraftsHeld'
  BY <1>5, <1>6 DEF DraftsHeld
<1>10. DraftsNumbered'
  <2> SUFFICES ASSUME NEW u \in Txs
               PROVE  /\ Numbering(draft'[u], counter')
                      /\ \A ev \in draft'[u] : ev.by = u
                      /\ \A e1, e2 \in draft'[u] : e1.of = e2.of => e1 = e2
    BY DEF DraftsNumbered
  <2>1. CASE u = t
    <3>1. \A ev \in draft[t] : ev.by = t
      BY DEF LogInv, DraftsNumbered
    <3>2. \A e1, e2 \in draft[t] : e1.of = e2.of => e1 = e2
      BY DEF LogInv, DraftsNumbered
    <3>3. draft'[u] = draft[t] \cup {x} /\ counter' = counter
      BY <1>5, <2>1
    <3>4. Numbering(draft'[u], counter')
      BY <1>7, <3>3
    <3>5. \A ev \in draft'[u] : ev.by = u
      BY <1>3, <2>1, <3>1, <3>3
    <3>6. \A e1, e2 \in draft'[u] : e1.of = e2.of => e1 = e2
      BY <1>2, <1>3, <3>2, <3>3
    <3> QED
      BY <3>4, <3>5, <3>6
  <2>2. CASE u # t
    BY <1>5, <2>2 DEF LogInv, DraftsNumbered
  <2> QED
    BY <2>1, <2>2
<1>11. EmitsOnce'
  <2>1. x.of = em'[t].of /\ x.seq = counter' + Cardinality(draft'[t]) /\ x \in draft'[t]
    BY <1>1, <1>3, <1>5, <1>7
  <2> SUFFICES ASSUME NEW u \in Txs
               PROVE  /\ em'[u].pc = "idle" => em'[u] = Quiet
                      /\ em'[u].pc # "idle" => em'[u].of \in Topics
                      /\ em'[u].pc \in {"emit", "create", "raised"} => \A ev \in draft'[u] : ev.of # em'[u].of
                      /\ em'[u].pc = "appended" =>
                            \E ev \in draft'[u] : ev.of = em'[u].of /\ ev.seq = counter' + Cardinality(draft'[u])
    BY DEF EmitsOnce
  <2>2. CASE u = t
    BY <1>2, <1>5, <2>1, <2>2
  <2>3. CASE u # t
    BY <1>5, <2>3 DEF LogInv, EmitsOnce
  <2> QED
    BY <2>2, <2>3
<1>12. ChangesOwn'
  BY <1>3, <1>5, Apart DEF LogInv, ChangesOwn
<1>13. LogNumbered'
  BY DEF LogInv, LogNumbered
<1> QED
  BY <1>8, <1>9, <1>10, <1>11, <1>12, <1>13 DEF LogInv

LEMMA EmitMoves ==
    ASSUME LogInv, NEW t \in Txs, NEW pc \in {"create", "raised"},
           em[t].pc \in {"emit", "create"},
           em' = [em EXCEPT ![t].pc = pc], UNCHANGED <<row, counter, holder, log, draft>>
    PROVE  LogInv'
<1>1. /\ em \in [Txs -> [pc : EmitStates, of : Topics \cup {NoTx}]]
      /\ em' \in [Txs -> [pc : EmitStates, of : Topics \cup {NoTx}]]
      /\ em'[t].pc = pc /\ em'[t].of = em[t].of
      /\ \A u \in Txs : u # t => em'[u] = em[u]
  BY DEF LogInv, LogTypeOK, EmitStates
<1>2. LogTypeOK' /\ DraftsHeld' /\ DraftsNumbered' /\ LogNumbered'
  BY <1>1 DEF LogInv, LogTypeOK, DraftsHeld, DraftsNumbered, LogNumbered
<1>3. EmitsOnce'
  BY <1>1 DEF LogInv, EmitsOnce
<1>4. ChangesOwn'
  BY <1>1, Apart DEF LogInv, ChangesOwn
<1> QED
  BY <1>2, <1>3, <1>4 DEF LogInv

LEMMA EmitKeeps ==
    ASSUME LogInv, NEW t \in Txs, Emit(t)
    PROVE  LogInv'
<1>1. CASE GetCounter(t)
  BY <1>1, Append1 DEF GetCounter
<1>2. CASE NoCounter(t)
  BY <1>2, EmitMoves DEF NoCounter
<1>3. CASE CreateCounter(t)
  BY <1>3, Append1 DEF CreateCounter
<1>4. CASE CreateCollides(t)
  BY <1>4, EmitMoves DEF CreateCollides
<1> QED
  BY <1>1, <1>2, <1>3, <1>4 DEF Emit

(* A commit moves the counter to the last event of the draft.              *)
LEMMA PublishKeeps ==
    ASSUME LogInv, NEW t \in Txs, Publish(t)
    PROVE  LogInv'
<1> DEFINE k == Cardinality(draft[t])
<1>1. /\ counter \in Nat /\ draft \in [Txs -> SUBSET Events] /\ log \subseteq Events
      /\ em \in [Txs -> [pc : EmitStates, of : Topics \cup {NoTx}]]
      /\ holder \in Txs \cup {NoTx}
      /\ Numbering(draft[t], counter) /\ k \in Nat /\ (draft[t] = {} <=> k = 0)
  BY NumberingCount DEF LogInv, LogTypeOK, DraftsNumbered
<1>2. /\ log' = log \cup draft[t] /\ counter' = counter + k
      /\ holder' = IF holder = t THEN NoTx ELSE holder
      /\ draft'[t] = {} /\ \A u \in Txs : u # t => draft'[u] = draft[u]
      /\ em'[t] = Quiet /\ \A u \in Txs : u # t => em'[u] = em[u]
  BY <1>1 DEF Publish
<1>3. LogTypeOK'
  <2>1. row' \in BOOLEAN /\ counter' \in Nat /\ log' \subseteq Events
    BY <1>1, <1>2 DEF Publish, LogInv, LogTypeOK
  <2>2. draft' \in [Txs -> SUBSET Events] /\ em' \in [Txs -> [pc : EmitStates, of : Topics \cup {NoTx}]]
    BY <1>1, QuietFacts DEF Publish
  <2>3. holder' \in Txs \cup {NoTx}
    BY <1>1, <1>2
  <2> QED
    BY <2>1, <2>2, <2>3 DEF LogTypeOK
<1>4. DraftsHeld'
  BY <1>2 DEF LogInv, DraftsHeld
<1>5. \A u \in Txs : draft'[u] = {} \/ (draft'[u] = draft[u] /\ counter' = counter)
  BY <1>1, <1>2 DEF LogInv, DraftsHeld
<1>6. DraftsNumbered'
  <2> SUFFICES ASSUME NEW u \in Txs
               PROVE  /\ Numbering(draft'[u], counter')
                      /\ \A ev \in draft'[u] : ev.by = u
                      /\ \A e1, e2 \in draft'[u] : e1.of = e2.of => e1 = e2
    BY DEF DraftsNumbered
  <2>1. CASE draft'[u] = {}
    BY <1>1, <1>2, <2>1, NumberingEmpty
  <2>2. CASE draft'[u] = draft[u] /\ counter' = counter
    BY <2>2 DEF LogInv, DraftsNumbered
  <2> QED
    BY <1>5, <2>1, <2>2
<1>7. EmitsOnce'
  <2> SUFFICES ASSUME NEW u \in Txs
               PROVE  /\ em'[u].pc = "idle" => em'[u] = Quiet
                      /\ em'[u].pc # "idle" => em'[u].of \in Topics
                      /\ em'[u].pc \in {"emit", "create", "raised"} => \A ev \in draft'[u] : ev.of # em'[u].of
                      /\ em'[u].pc = "appended" =>
                            \E ev \in draft'[u] : ev.of = em'[u].of /\ ev.seq = counter' + Cardinality(draft'[u])
    BY DEF EmitsOnce
  <2>1. CASE u = t
    BY <1>2, <2>1, QuietFacts
  <2>2. CASE u # t
    <3>1. em'[u] = em[u] /\ draft'[u] = draft[u]
      BY <1>2, <2>2
    <3>2. draft[u] # {} => counter' = counter
      BY <1>5, <3>1
    <3> QED
      BY <3>1, <3>2 DEF LogInv, EmitsOnce
  <2> QED
    BY <2>1, <2>2
<1>8. ChangesOwn'
  BY <1>2, QuietFacts, Apart DEF LogInv, ChangesOwn
<1>9. LogNumbered'
  <2> HIDE DEF k
  <2>1. \A ev \in draft[t] : ev.seq \in (counter + 1) .. (counter + k)
    BY <1>1 DEF Numbering, k
  <2>2. \A n \in (counter + 1) .. (counter + k) : \E ev \in draft[t] : ev.seq = n
    BY <1>1 DEF Numbering, k
  <2>3. \A e1, e2 \in draft[t] : e1.seq = e2.seq => e1 = e2
    BY <1>1 DEF Numbering
  <2>4. \A ev \in log' : ev.seq \in 1 .. counter'
    BY <1>1, <1>2, <2>1 DEF LogInv, LogNumbered
  <2>5. ASSUME NEW n \in 1 .. counter' PROVE \E ev \in log' : ev.seq = n
    <3>1. CASE n <= counter
      BY <1>1, <1>2, <3>1 DEF LogInv, LogNumbered
    <3>2. CASE n > counter
      BY <1>1, <1>2, <2>2, <3>2
    <3> QED
      BY <1>1, <1>2, <3>1, <3>2
  <2>6. \A e1, e2 \in log' : e1.seq = e2.seq => e1 = e2
    BY <1>1, <1>2, <2>1, <2>3 DEF LogInv, LogNumbered
  <2> QED
    BY <2>4, <2>5, <2>6 DEF LogNumbered
<1> QED
  BY <1>3, <1>4, <1>6, <1>7, <1>8, <1>9 DEF LogInv

(* A transaction goes on with the part of its draft that keeps its         *)
(* numbers, emits the next event or none.                                  *)
LEMMA RestartKeeps ==
    ASSUME LogInv, NEW t \in Txs, NEW kept, kept \subseteq draft[t],
           Numbering(kept, counter),
           NEW q, q \in {Quiet} \cup [pc : {"emit"}, of : Topics],
           q # Quiet => \A ev \in kept : ev.of # q.of,
           t \in Emitters => (q = Quiet /\ kept = {}) \/ q.of = t,
           draft' = [draft EXCEPT ![t] = kept], em' = [em EXCEPT ![t] = q],
           holder' = holder \/ (kept = {} /\ holder = t /\ holder' = NoTx),
           UNCHANGED <<row, counter, log>>
    PROVE  LogInv'
<1>1. /\ counter \in Nat /\ draft \in [Txs -> SUBSET Events] /\ log \subseteq Events
      /\ em \in [Txs -> [pc : EmitStates, of : Topics \cup {NoTx}]]
  BY DEF LogInv, LogTypeOK
<1>2. /\ draft'[t] = kept /\ \A u \in Txs : u # t => draft'[u] = draft[u]
      /\ em'[t] = q /\ \A u \in Txs : u # t => em'[u] = em[u]
  BY <1>1
<1>3. /\ q \in [pc : EmitStates, of : Topics \cup {NoTx}]
      /\ q = Quiet \/ (q.pc = "emit" /\ q.of \in Topics)
  BY QuietFacts DEF EmitStates
<1>4. LogTypeOK'
  <2>1. draft' \in [Txs -> SUBSET Events] /\ em' \in [Txs -> [pc : EmitStates, of : Topics \cup {NoTx}]]
    BY <1>1, <1>3
  <2> QED
    BY <2>1 DEF LogInv, LogTypeOK
<1>5. DraftsHeld' /\ LogNumbered'
  BY <1>2 DEF LogInv, DraftsHeld, LogNumbered
<1>6. DraftsNumbered'
  BY <1>2 DEF LogInv, DraftsNumbered
<1>7. EmitsOnce'
  BY <1>2, <1>3, QuietFacts DEF LogInv, EmitsOnce
<1>8. ChangesOwn'
  BY <1>2, <1>3, QuietFacts, Apart DEF LogInv, ChangesOwn
<1> QED
  BY <1>4, <1>5, <1>6, <1>7, <1>8 DEF LogInv

LEMMA EmitStarts ==
    ASSUME LogInv, NEW c \in Emitters, em[c] = Quiet,
           em' = [em EXCEPT ![c] = [pc |-> "emit", of |-> c]],
           UNCHANGED <<row, counter, holder, log, draft>>
    PROVE  LogInv'
<1> DEFINE q == [pc |-> "emit", of |-> c]
<1>1. c \in Txs /\ draft[c] = {} /\ draft' = [draft EXCEPT ![c] = draft[c]]
  BY Apart, QuietFacts DEF LogInv, LogTypeOK, ChangesOwn
<1>2. Numbering(draft[c], counter)
  BY <1>1 DEF LogInv, DraftsNumbered
<1>3. q \in [pc : {"emit"}, of : Topics] /\ q.of = c
  BY DEF Topics
<1>4. em' = [em EXCEPT ![c] = q]
  OBVIOUS
<1> HIDE DEF q
<1> QED
  BY <1>1, <1>2, <1>3, <1>4, RestartKeeps

LEMMA DiscardKeeps ==
    ASSUME LogInv, NEW t \in Txs, Discard(t)
    PROVE  LogInv'
<1>1. Numbering({}, counter)
  BY NumberingEmpty DEF LogInv, LogTypeOK
<1>2. holder' = holder \/ (holder = t /\ holder' = NoTx)
  BY DEF Discard
<1> QED
  BY <1>1, <1>2, RestartKeeps DEF Discard

(* What emit() and a commit change, for those that look on.                *)
LEMMA EmitEffect ==
    ASSUME LogInv, NEW t \in Txs, Emit(t)
    PROVE  /\ log' = log
           /\ \A u \in Txs : u # t => draft'[u] = draft[u] /\ em'[u] = em[u]
           /\ em[t].pc # "idle" /\ em'[t].pc # "idle" /\ em'[t].of = em[t].of
           /\ draft[t] \subseteq draft'[t]
           /\ \A ev \in draft'[t] : ev \in draft[t] \/ ev.of = em[t].of
<1>1. /\ draft \in [Txs -> SUBSET Events]
      /\ em \in [Txs -> [pc : EmitStates, of : Topics \cup {NoTx}]]
  BY DEF LogInv, LogTypeOK
<1>2. ASSUME Append(t)
      PROVE  /\ \A u \in Txs : u # t => draft'[u] = draft[u] /\ em'[u] = em[u]
             /\ em'[t].pc = "appended" /\ em'[t].of = em[t].of
             /\ draft[t] \subseteq draft'[t]
             /\ \A ev \in draft'[t] : ev \in draft[t] \/ ev.of = em[t].of
  BY <1>1, <1>2 DEF Append
<1>3. CASE GetCounter(t)
  BY <1>2, <1>3 DEF GetCounter
<1>4. CASE NoCounter(t)
  BY <1>1, <1>4 DEF NoCounter
<1>5. CASE CreateCounter(t)
  BY <1>2, <1>5 DEF CreateCounter
<1>6. CASE CreateCollides(t)
  BY <1>1, <1>6 DEF CreateCollides
<1> QED
  BY <1>3, <1>4, <1>5, <1>6 DEF Emit

LEMMA EndEffect ==
    ASSUME LogInv, NEW t \in Txs, Publish(t) \/ Discard(t)
    PROVE  /\ draft'[t] = {} /\ em'[t] = Quiet
           /\ \A u \in Txs : u # t => draft'[u] = draft[u] /\ em'[u] = em[u]
           /\ Publish(t) => log' = log \cup draft[t]
           /\ Discard(t) => log' = log
BY DEF Publish, Discard, LogInv, LogTypeOK
-----------------------------------------------------------------------------
EntryRecords ==
    [status : {"none", "void", "PENDING", "DISPATCHED", "FAILED"}, attempts : Nat]

News == UNION {[S -> EntryRecords] : S \in SUBSET Entries}

DispRecords == [pc : {"idle", "listed", "work"}, todo : SUBSET Entries,
                at : Entries \cup {0}, new : News]

DispTypeOK ==
    /\ entry \in [Entries -> EntryRecords]
    /\ rowOf \subseteq Entries /\ misfiled \subseteq Entries
    /\ disp \in [Dispatchers -> DispRecords]

Known(e) == entry[e].status \notin {"none", "void"}

(* A dispatcher emits for the entry it is at and has drafted events of     *)
(* those it handled; what it has before it, is at and has handled are      *)
(* different entries, all of them written.                                 *)
Steady == \A d \in Dispatchers :
    /\ disp[d].pc = "idle" => disp[d].todo = {}
    /\ disp[d].pc # "work" =>
          disp[d].at = 0 /\ Handled(d) = {} /\ draft[d] = {} /\ em[d].pc = "idle"
    /\ disp[d].pc = "work" /\ disp[d].at = 0 => disp[d].todo = {} /\ em[d].pc = "idle"
    /\ disp[d].at # 0 => em[d].pc # "idle" /\ em[d].of = disp[d].at
    /\ disp[d].at \notin disp[d].todo \cup Handled(d)
    /\ disp[d].todo \cap Handled(d) = {}
    /\ \A ev \in draft[d] : ev.of \in Entries \cap (Handled(d) \cup {disp[d].at})
    /\ \A e \in Entries : e \in disp[d].todo \cup Handled(d) \cup {disp[d].at} => Known(e)

(* No entry is locked twice.                                               *)
Exclusive ==
    \A d, o \in Dispatchers : d # o => Locked(d) \cap Locked(o) = {}

Delivered1(e) == (\E ev \in log : ev.of = e) /\ e \notin rowOf

(* An entry that was announced is known and settled.                       *)
LogSettled ==
    \A ev \in log : ev.of \in Entries => Known(ev.of) /\ entry[ev.of].status # "PENDING"

(* What a dispatcher is going to write is true once it commits.            *)
NewDelivered == \A d \in Dispatchers : \A e \in Handled(d) :
    /\ disp[d].new[e].status \notin {"none", "void"}
    /\ disp[d].new[e].status = "DISPATCHED" /\ e \notin misfiled =>
          (\E ev \in draft[d] : ev.of = e) \/ Delivered1(e)
    /\ disp[d].new[e].status = "PENDING" => \A ev \in log \cup draft[d] : ev.of # e

(* A dispatcher never meets an entry it has announced.                     *)
NotAgain == \A d \in Dispatchers : \A ev \in log :
    ev.by = d /\ ev.of \in Entries => ev.of \notin disp[d].todo \cup Handled(d) \cup {disp[d].at}

DispInv ==
    /\ DispTypeOK /\ Steady /\ Exclusive /\ DispatchedIsDelivered /\ LogSettled
    /\ NewDelivered /\ NotAgain /\ DeliveredOncePerDispatcher

LEMMA NewsParts ==
    ASSUME NEW n \in News
    PROVE  DOMAIN n \subseteq Entries /\ \A e \in DOMAIN n : n[e] \in EntryRecords
BY DEF News

LEMMA NothingFits == Nothing \in News /\ DOMAIN Nothing = {}
<1>1. Nothing \in [{} -> EntryRecords] /\ DOMAIN Nothing = {}
  BY DEF Nothing
<1> QED
  BY <1>1 DEF News

LEMMA IdleFits == /\ Idle \in DispRecords /\ Idle.pc = "idle" /\ Idle.todo = {} /\ Idle.at = 0
                  /\ DOMAIN Idle.new = {}
BY NothingFits DEF Idle, DispRecords

LEMMA OutboxInitHolds == OutboxInit => DispInv
<1> SUFFICES ASSUME OutboxInit PROVE DispInv
  OBVIOUS
<1>1. Unwritten \in EntryRecords /\ [Unwritten EXCEPT !.status = "void"] \in EntryRecords
      /\ Unwritten.status = "none" /\ [Unwritten EXCEPT !.status = "void"].status = "void"
  BY DEF Unwritten, EntryRecords
<1>2. \A e \in Entries : entry[e] \in EntryRecords /\ entry[e].status \in {"none", "void"}
  BY <1>1 DEF OutboxInit
<1>3. DispTypeOK
  BY <1>2, IdleFits DEF OutboxInit, DispTypeOK
<1>4. \A d \in Dispatchers : /\ disp[d] = Idle /\ draft[d] = {} /\ em[d].pc = "idle"
                             /\ Handled(d) = {} /\ Locked(d) = {}
  BY IdleFits, Apart, QuietFacts DEF OutboxInit, LogInit, Handled, Locked
<1>5. Steady
  BY <1>4, IdleFits, Apart DEF Steady
<1>6. Exclusive /\ NewDelivered /\ NotAgain /\ LogSettled /\ DeliveredOncePerDispatcher
  BY <1>4 DEF Exclusive, NewDelivered, NotAgain, LogSettled, DeliveredOncePerDispatcher,
              OutboxInit, LogInit
<1>7. DispatchedIsDelivered
  BY <1>2 DEF DispatchedIsDelivered
<1> QED
  BY <1>3, <1>5, <1>6, <1>7 DEF DispInv

LEMMA HandledEntries ==
    ASSUME DispTypeOK, NEW d \in Dispatchers
    PROVE  /\ Handled(d) \subseteq Entries /\ disp[d].todo \subseteq Entries
           /\ disp[d].at \in Entries \cup {0} /\ disp[d].new \in News
           /\ \A e \in Handled(d) : disp[d].new[e] \in EntryRecords
<1>1. disp[d] \in DispRecords
  BY DEF DispTypeOK
<1> QED
  BY <1>1, NewsParts DEF DispRecords, Handled

(* Changes that are not of entries do not touch the outbox.                *)
LEMMA ChangesAside ==
    ASSUME DispInv, UNCHANGED <<entry, rowOf, disp, misfiled>>,
           \A d \in Dispatchers : draft'[d] = draft[d] /\ em'[d] = em[d],
           NEW X, log' = log \cup X,
           \A ev \in X : ev.of \notin Entries /\ ev.by \notin Dispatchers
    PROVE  DispInv'
<1>1. \A d \in Dispatchers : Handled(d)' = Handled(d) /\ Locked(d)' = Locked(d)
  BY DEF Handled, Locked
<1>2. \A e : Known(e)' = Known(e)
  BY DEF Known
<1>3. \A e \in Entries : (\E ev \in log' : ev.of = e) <=> (\E ev \in log : ev.of = e)
  OBVIOUS
<1>4. DispTypeOK' /\ Exclusive'
  BY <1>1 DEF DispInv, DispTypeOK, Exclusive
<1>5. Steady'
  BY <1>1, <1>2 DEF DispInv, Steady
<1>6. DispatchedIsDelivered'
  BY <1>3 DEF DispInv, DispatchedIsDelivered
<1>7. LogSettled'
  BY <1>2 DEF DispInv, LogSettled
<1>8. \A d \in Dispatchers : Handled(d) \subseteq Entries
  BY HandledEntries DEF DispInv
<1>9. NewDelivered'
  <2> SUFFICES ASSUME NEW d \in Dispatchers, NEW e \in Handled(d)
               PROVE  /\ disp[d].new[e].status \notin {"none", "void"}
                      /\ disp[d].new[e].status = "DISPATCHED" /\ e \notin misfiled =>
                            (\E ev \in draft[d] : ev.of = e) \/ Delivered1(e)'
                      /\ disp[d].new[e].status = "PENDING" => \A ev \in log' \cup draft[d] : ev.of # e
    BY <1>1 DEF NewDelivered
  <2>1. e \in Entries
    BY <1>8
  <2> QED
    BY <2>1 DEF DispInv, NewDelivered, Delivered1
<1>10. NotAgain'
  BY <1>1 DEF DispInv, NotAgain
<1>11. DeliveredOncePerDispatcher'
  BY DEF DispInv, DeliveredOncePerDispatcher
<1> QED
  BY <1>4, <1>5, <1>6, <1>7, <1>9, <1>10, <1>11 DEF DispInv

(* The dispatcher emits, in the draft of the entry it is at.               *)
LEMMA EmitDispatched ==
    ASSUME LogInv, DispInv, NEW d \in Dispatchers, Emit(d), UNCHANGED outboxVars
    PROVE  DispInv'
<1>1. d \in Txs /\ UNCHANGED <<entry, rowOf, disp, misfiled>>
  BY Apart DEF outboxVars
<1>2. /\ log' = log
      /\ \A o \in Dispatchers : o # d => draft'[o] = draft[o] /\ em'[o] = em[o]
      /\ em[d].pc # "idle" /\ em'[d].pc # "idle" /\ em'[d].of = em[d].of
      /\ draft[d] \subseteq draft'[d]
      /\ \A ev \in draft'[d] : ev \in draft[d] \/ ev.of = em[d].of
  BY <1>1, EmitEffect, Apart
<1>3. disp[d].pc = "work" /\ disp[d].at # 0 /\ em[d].of = disp[d].at
  BY <1>2 DEF DispInv, Steady
<1>4. \A o \in Dispatchers : Handled(o)' = Handled(o) /\ Locked(o)' = Locked(o)
  BY <1>1 DEF Handled, Locked
<1>5. \A e : Known(e)' = Known(e)
  BY <1>1 DEF Known
<1>6. /\ DispTypeOK' /\ Exclusive' /\ DispatchedIsDelivered' /\ LogSettled'
      /\ NotAgain' /\ DeliveredOncePerDispatcher'
  BY <1>1, <1>2, <1>4, <1>5 DEF DispInv, DispTypeOK, Exclusive, DispatchedIsDelivered,
     LogSettled, NotAgain, DeliveredOncePerDispatcher
<1>7. ASSUME NEW o \in Dispatchers
      PROVE  \A ev \in draft'[o] : ev \in draft[o] \/ (o = d /\ ev.of = disp[o].at)
  BY <1>2, <1>3
<1>8. Steady'
  BY <1>1, <1>2, <1>3, <1>4, <1>5, <1>7, HandledEntries DEF DispInv, Steady
<1>9. NewDelivered'
  <2> SUFFICES ASSUME NEW o \in Dispatchers, NEW e \in Handled(o)
               PROVE  /\ disp[o].new[e].status \notin {"none", "void"}
                      /\ disp[o].new[e].status = "DISPATCHED" /\ e \notin misfiled =>
                            (\E ev \in draft'[o] : ev.of = e) \/ Delivered1(e)
                      /\ disp[o].new[e].status = "PENDING" => \A ev \in log \cup draft'[o] : ev.of # e
    BY <1>1, <1>2, <1>4 DEF NewDelivered, Delivered1
  <2>1. draft[o] \subseteq draft'[o]
    BY <1>2
  <2>2. disp[o].at # e
    BY DEF DispInv, Steady
  <2> QED
    BY <1>7, <2>1, <2>2 DEF DispInv, NewDelivered
<1> QED
  BY <1>6, <1>8, <1>9 DEF DispInv

(* A gate that is decided now is at no dispatcher and in no event.         *)
LEMMA WriteKeeps ==
    ASSUME DispInv, NEW w \in Entries, WriteEntry(w)
    PROVE  DispInv'
<1>1. /\ entry' = [entry EXCEPT ![w].status = "PENDING"] /\ rowOf' = rowOf \cup {w}
      /\ ~Known(w)
      /\ UNCHANGED <<log, draft, em, disp, misfiled>>
  BY DEF WriteEntry, logVars, Known
<1>2. entry \in [Entries -> EntryRecords]
  BY DEF DispInv, DispTypeOK
<1>3. /\ entry' \in [Entries -> EntryRecords] /\ entry'[w].status = "PENDING"
      /\ \A e \in Entries : e # w => entry'[e] = entry[e]
  BY <1>1, <1>2 DEF EntryRecords
<1>4. \A e \in Entries : Known(e)' <=> Known(e) \/ e = w
  BY <1>3 DEF Known
<1>5. \A d \in Dispatchers : Handled(d)' = Handled(d) /\ Locked(d)' = Locked(d)
  BY <1>1 DEF Handled, Locked
<1>6. \A d \in Dispatchers : w \notin disp[d].todo \cup Handled(d) \cup {disp[d].at}
  BY <1>1 DEF DispInv, Steady
<1>7. \A ev \in log : ev.of # w
  BY <1>1 DEF DispInv, LogSettled
<1>8. DispTypeOK' /\ Exclusive' /\ NotAgain' /\ DeliveredOncePerDispatcher'
  BY <1>1, <1>3, <1>5 DEF DispInv, DispTypeOK, Exclusive, NotAgain, DeliveredOncePerDispatcher
<1>9. Steady'
  BY <1>1, <1>4, <1>5 DEF DispInv, Steady
<1>10. DispatchedIsDelivered'
  BY <1>1, <1>3 DEF DispInv, DispatchedIsDelivered
<1>11. LogSettled'
  BY <1>1, <1>3, <1>4, <1>7 DEF DispInv, LogSettled
<1>12. NewDelivered'
  <2> SUFFICES ASSUME NEW d \in Dispatchers, NEW e \in Handled(d)
               PROVE  /\ disp[d].new[e].status \notin {"none", "void"}
                      /\ disp[d].new[e].status = "DISPATCHED" /\ e \notin misfiled =>
                            (\E ev \in draft[d] : ev.of = e) \/ Delivered1(e)'
                      /\ disp[d].new[e].status = "PENDING" => \A ev \in log \cup draft[d] : ev.of # e
    BY <1>1, <1>5 DEF NewDelivered
  <2>1. e # w
    BY <1>6
  <2> QED
    BY <1>1, <2>1 DEF DispInv, NewDelivered, Delivered1
<1> QED
  BY <1>8, <1>9, <1>10, <1>11, <1>12 DEF DispInv

(* A dispatcher that has nothing locked and nothing drafted.               *)
LEMMA EmptyHanded ==
    ASSUME DispInv, NEW d \in Dispatchers, NEW r \in DispRecords,
           r.pc \in {"idle", "listed"}, r.at = 0, DOMAIN r.new = {},
           r.pc = "idle" => r.todo = {},
           \A e \in r.todo : Known(e) /\ \A ev \in log : ev.by = d => ev.of # e,
           disp' = [disp EXCEPT ![d] = r], draft'[d] = {}, em'[d].pc = "idle",
           \A o \in Dispatchers : o # d => draft'[o] = draft[o] /\ em'[o] = em[o],
           UNCHANGED <<log, entry, rowOf, misfiled>>
    PROVE  DispInv'
<1>1. disp \in [Dispatchers -> DispRecords]
  BY DEF DispInv, DispTypeOK
<1>2. disp'[d] = r /\ \A o \in Dispatchers : o # d => disp'[o] = disp[o]
  BY <1>1
<1>3. /\ Handled(d)' = {} /\ Locked(d)' = {}
      /\ \A o \in Dispatchers : o # d => Handled(o)' = Handled(o) /\ Locked(o)' = Locked(o)
  BY <1>2 DEF Handled, Locked
<1>4. \A e : Known(e)' = Known(e)
  BY DEF Known
<1>5. DispTypeOK'
  BY <1>1 DEF DispInv, DispTypeOK
<1>6. Steady'
  <2> SUFFICES ASSUME NEW o \in Dispatchers
               PROVE  (/\ disp[o].pc = "idle" => disp[o].todo = {}
                       /\ disp[o].pc # "work" =>
                             disp[o].at = 0 /\ Handled(o) = {} /\ draft[o] = {} /\ em[o].pc = "idle"
                       /\ disp[o].pc = "work" /\ disp[o].at = 0 => disp[o].todo = {} /\ em[o].pc = "idle"
                       /\ disp[o].at # 0 => em[o].pc # "idle" /\ em[o].of = disp[o].at
                       /\ disp[o].at \notin disp[o].todo \cup Handled(o)
                       /\ disp[o].todo \cap Handled(o) = {}
                       /\ \A ev \in draft[o] : ev.of \in Entries \cap (Handled(o) \cup {disp[o].at})
                       /\ \A e \in Entries : e \in disp[o].todo \cup Handled(o) \cup {disp[o].at} => Known(e))'
    BY DEF Steady
  <2>1. CASE o = d
    <3>1. 0 \notin r.todo
      BY Apart DEF DispRecords
    <3> QED
      BY <1>2, <1>3, <1>4, <2>1, <3>1, Apart
  <2>2. CASE o # d
    BY <1>2, <1>3, <1>4, <2>2 DEF DispInv, Steady
  <2> QED
    BY <2>1, <2>2
<1>7. Exclusive' /\ DispatchedIsDelivered' /\ LogSettled' /\ DeliveredOncePerDispatcher'
  BY <1>3, <1>4 DEF DispInv, Exclusive, DispatchedIsDelivered, LogSettled, DeliveredOncePerDispatcher
<1>8. NewDelivered'
  BY <1>2, <1>3 DEF DispInv, NewDelivered, Delivered1
<1>9. NotAgain'
  BY <1>2, <1>3, Apart DEF DispInv, NotAgain
<1> QED
  BY <1>5, <1>6, <1>7, <1>8, <1>9 DEF DispInv

(* What is next, and where that leaves the dispatcher.                     *)
LEMMA GoesOnEffect ==
    ASSUME LogTypeOK, DispTypeOK, NEW d \in Dispatchers, NEW left, left \subseteq Entries,
           NEW new \in News, GoesOn(d, left, new)
    PROVE  \E q \in {Quiet} \cup [pc : {"emit"}, of : Entries] :
             /\ em' = [em EXCEPT ![d] = q]
             /\ disp' \in [Dispatchers -> DispRecords]
             /\ disp'[d].pc = "work" /\ disp'[d].new = new
             /\ disp'[d].at # 0 => q.pc = "emit" /\ q.of = disp'[d].at
             /\ disp'[d].at = 0 => q = Quiet /\ disp'[d].todo = {} /\ left = {}
             /\ disp'[d].at # 0 => left = disp'[d].todo \cup {disp'[d].at}
             /\ disp'[d].at \notin disp'[d].todo
             /\ \A o \in Dispatchers : o # d => disp'[o] = disp[o]
<1>1. disp \in [Dispatchers -> DispRecords]
  BY DEF DispTypeOK
<1>2. CASE /\ left = {}
           /\ disp' = [disp EXCEPT ![d] = [pc |-> "work", todo |-> {}, at |-> 0, new |-> new]]
           /\ em' = [em EXCEPT ![d] = Quiet]
  <2> DEFINE r == [pc |-> "work", todo |-> {}, at |-> 0, new |-> new]
  <2>1. r \in DispRecords /\ r.pc = "work" /\ r.todo = {} /\ r.at = 0 /\ r.new = new
    BY DEF DispRecords
  <2>2. disp' = [disp EXCEPT ![d] = r]
    BY <1>2
  <2> HIDE DEF r
  <2>3. disp' \in [Dispatchers -> DispRecords] /\ disp'[d] = r
        /\ \A o \in Dispatchers : o # d => disp'[o] = disp[o]
    BY <1>1, <2>1, <2>2
  <2> WITNESS Quiet \in {Quiet} \cup [pc : {"emit"}, of : Entries]
  <2> QED
    BY <1>2, <2>1, <2>3
<1>3. CASE \E e \in left :
             /\ disp' = [disp EXCEPT ![d] = [pc |-> "work", todo |-> left \ {e},
                                            at |-> e, new |-> new]]
             /\ em' = [em EXCEPT ![d] = [pc |-> "emit", of |-> e]]
  <2>1. PICK e \in left :
             /\ disp' = [disp EXCEPT ![d] = [pc |-> "work", todo |-> left \ {e},
                                            at |-> e, new |-> new]]
             /\ em' = [em EXCEPT ![d] = [pc |-> "emit", of |-> e]]
    BY <1>3
  <2> DEFINE r == [pc |-> "work", todo |-> left \ {e}, at |-> e, new |-> new]
             q == [pc |-> "emit", of |-> e]
  <2>2. r \in DispRecords /\ r.pc = "work" /\ r.todo = left \ {e} /\ r.at = e /\ r.new = new
    BY DEF DispRecords
  <2>3. q \in [pc : {"emit"}, of : Entries] /\ q.pc = "emit" /\ q.of = e
    OBVIOUS
  <2>4. disp' = [disp EXCEPT ![d] = r] /\ em' = [em EXCEPT ![d] = q]
    BY <2>1
  <2> HIDE DEF r, q
  <2>5. disp' \in [Dispatchers -> DispRecords] /\ disp'[d] = r
        /\ \A o \in Dispatchers : o # d => disp'[o] = disp[o]
    BY <1>1, <2>2, <2>4
  <2>6. e # 0 /\ left = (left \ {e}) \cup {e}
    BY Apart
  <2>7. q \in {Quiet} \cup [pc : {"emit"}, of : Entries]
    BY <2>3
  <2> WITNESS q \in {Quiet} \cup [pc : {"emit"}, of : Entries]
  <2> QED
    BY <2>2, <2>3, <2>4, <2>5, <2>6
<1> QED
  BY <1>2, <1>3 DEF GoesOn

(* What a dispatcher may write to the row of e, with the draft it keeps.   *)
Fits(w, e, kept, excused) ==
    /\ w.status \notin {"none", "void"}
    /\ w.status = "DISPATCHED" /\ e \notin excused =>
          (\E ev \in kept : ev.of = e) \/ Delivered1(e)
    /\ w.status = "PENDING" => \A ev \in log \cup kept : ev.of # e

(* It goes on with entries it had, no one else has, and it has not met.    *)
LEMMA GoesOnKeeps ==
    ASSUME LogInv, DispInv, NEW d \in Dispatchers,
           NEW left, left \subseteq Entries, NEW new \in News,
           NEW kept, kept \subseteq draft[d], Numbering(kept, counter),
           GoesOn(d, left, new), draft' = [draft EXCEPT ![d] = kept],
           left \cap DOMAIN new = {},
           left \cup DOMAIN new \subseteq disp[d].todo \cup Handled(d) \cup {disp[d].at},
           \A o \in Dispatchers : o # d => (left \cup DOMAIN new) \cap Locked(o) = {},
           \A ev \in kept : ev.of \in DOMAIN new,
           misfiled \subseteq misfiled', misfiled' \subseteq Entries,
           \A e \in DOMAIN new : Fits(new[e], e, kept, misfiled'),
           holder' = holder \/ (kept = {} /\ holder = d /\ holder' = NoTx),
           UNCHANGED <<row, counter, log, entry, rowOf>>
    PROVE  LogInv' /\ DispInv'
<1>1. /\ d \in Txs /\ d \notin Emitters /\ DOMAIN new \subseteq Entries
      /\ 0 \notin Entries /\ Entries \subseteq Topics
      /\ draft \in [Txs -> SUBSET Events]
      /\ em \in [Txs -> [pc : EmitStates, of : Topics \cup {NoTx}]]
  BY Apart, NewsParts DEF Topics, LogInv, LogTypeOK
<1>2. PICK q \in {Quiet} \cup [pc : {"emit"}, of : Entries] :
             /\ em' = [em EXCEPT ![d] = q]
             /\ disp' \in [Dispatchers -> DispRecords]
             /\ disp'[d].pc = "work" /\ disp'[d].new = new
             /\ disp'[d].at # 0 => q.pc = "emit" /\ q.of = disp'[d].at
             /\ disp'[d].at = 0 => q = Quiet /\ disp'[d].todo = {} /\ left = {}
             /\ disp'[d].at # 0 => left = disp'[d].todo \cup {disp'[d].at}
             /\ disp'[d].at \notin disp'[d].todo
             /\ \A o \in Dispatchers : o # d => disp'[o] = disp[o]
  BY GoesOnEffect DEF LogInv, DispInv
<1>3. LogInv'
  <2>1. q \in {Quiet} \cup [pc : {"emit"}, of : Topics]
    BY <1>1
  <2>2. q # Quiet => \A ev \in kept : ev.of # q.of
    BY <1>2
  <2> QED
    BY <1>1, <1>2, <2>1, <2>2, RestartKeeps
<1>4. /\ em'[d] = q /\ draft'[d] = kept
      /\ \A o \in Dispatchers : o # d => em'[o] = em[o] /\ draft'[o] = draft[o]
  BY <1>1, <1>2, Apart
<1>5. /\ Handled(d)' = DOMAIN new
      /\ \A o \in Dispatchers : o # d => Handled(o)' = Handled(o) /\ Locked(o)' = Locked(o)
  BY <1>2 DEF Handled, Locked
<1>6. Locked(d)' \subseteq left \cup DOMAIN new
  BY <1>2, <1>5 DEF Locked
<1>7. disp'[d].todo \subseteq left /\ disp'[d].at \in left \cup {0}
  BY <1>2
<1>8. \A e : Known(e)' = Known(e)
  BY DEF Known
<1>9. DispTypeOK'
  BY <1>2 DEF DispInv, DispTypeOK
<1>10. Steady'
  <2> SUFFICES ASSUME NEW o \in Dispatchers
               PROVE  (/\ disp[o].pc = "idle" => disp[o].todo = {}
                       /\ disp[o].pc # "work" =>
                             disp[o].at = 0 /\ Handled(o) = {} /\ draft[o] = {} /\ em[o].pc = "idle"
                       /\ disp[o].pc = "work" /\ disp[o].at = 0 => disp[o].todo = {} /\ em[o].pc = "idle"
                       /\ disp[o].at # 0 => em[o].pc # "idle" /\ em[o].of = disp[o].at
                       /\ disp[o].at \notin disp[o].todo \cup Handled(o)
                       /\ disp[o].todo \cap Handled(o) = {}
                       /\ \A ev \in draft[o] : ev.of \in Entries \cap (Handled(o) \cup {disp[o].at})
                       /\ \A e \in Entries : e \in disp[o].todo \cup Handled(o) \cup {disp[o].at} => Known(e))'
    BY DEF Steady
  <2>1. CASE o = d
    <3>1. \A e \in Entries : e \in left \cup DOMAIN new => Known(e)
      BY DEF DispInv, Steady
    <3>2. disp'[d].at \notin disp'[d].todo \cup DOMAIN new
      BY <1>1, <1>2
    <3>3. \A e \in Entries : e \in disp'[d].todo \cup DOMAIN new \cup {disp'[d].at} => Known(e)
      BY <1>1, <1>7, <3>1
    <3>4. disp'[d].todo \cap DOMAIN new = {}
      BY <1>7
    <3> QED
      BY <1>1, <1>2, <1>4, <1>5, <1>8, <2>1, <3>2, <3>3, <3>4, QuietFacts
  <2>2. CASE o # d
    BY <1>2, <1>4, <1>5, <1>8, <2>2 DEF DispInv, Steady
  <2> QED
    BY <2>1, <2>2
<1>11. Exclusive'
  BY <1>5, <1>6 DEF DispInv, Exclusive
<1>12. DispatchedIsDelivered' /\ LogSettled' /\ DeliveredOncePerDispatcher'
  BY <1>8 DEF DispInv, DispatchedIsDelivered, LogSettled, DeliveredOncePerDispatcher
<1>13. NewDelivered'
  <2> SUFFICES ASSUME NEW o \in Dispatchers, NEW e \in Handled(o)'
               PROVE  /\ disp'[o].new[e].status \notin {"none", "void"}
                      /\ disp'[o].new[e].status = "DISPATCHED" /\ e \notin misfiled' =>
                            (\E ev \in draft'[o] : ev.of = e) \/ Delivered1(e)
                      /\ disp'[o].new[e].status = "PENDING" => \A ev \in log \cup draft'[o] : ev.of # e
    BY DEF NewDelivered, Delivered1
  <2>1. CASE o = d
    <3>1. Fits(new[e], e, kept, misfiled')
      BY <1>5, <2>1
    <3> QED
      BY <1>2, <1>4, <2>1, <3>1 DEF Fits
  <2>2. CASE o # d
    BY <1>2, <1>4, <1>5, <2>2 DEF DispInv, NewDelivered
  <2> QED
    BY <2>1, <2>2
<1>14. NotAgain'
  <2> SUFFICES ASSUME NEW o \in Dispatchers, NEW ev \in log, ev.by = o, ev.of \in Entries
               PROVE  ev.of \notin disp'[o].todo \cup Handled(o)' \cup {disp'[o].at}
    BY DEF NotAgain
  <2>1. CASE o = d
    <3>1. ev.of \notin left \cup DOMAIN new
      BY <2>1 DEF DispInv, NotAgain
    <3> QED
      BY <1>1, <1>5, <1>7, <2>1, <3>1
  <2>2. CASE o # d
    BY <1>2, <1>5, <2>2 DEF DispInv, NotAgain
  <2> QED
    BY <2>1, <2>2
<1> QED
  BY <1>3, <1>9, <1>10, <1>11, <1>12, <1>13, <1>14 DEF DispInv
-----------------------------------------------------------------------------
LEMMA ListKeeps ==
    ASSUME DispInv, NEW d \in Dispatchers, DispList(d)
    PROVE  DispInv'
<1> DEFINE listed == {e \in Entries : /\ entry[e].status = "PENDING"
                                     /\ entry[e].attempts < MaxAttempts}
           r == [Idle EXCEPT !.pc = "listed", !.todo = listed]
<1>1. /\ disp[d].pc = "idle" /\ disp' = [disp EXCEPT ![d] = r]
      /\ UNCHANGED <<log, draft, em, entry, rowOf, misfiled>>
  BY DEF DispList, logVars
<1>2. r \in DispRecords /\ r.pc = "listed" /\ r.todo = listed /\ r.at = 0 /\ DOMAIN r.new = {}
  BY IdleFits DEF DispRecords
<1>3. \A e \in listed : Known(e) /\ \A ev \in log : ev.of # e
  BY DEF Known, DispInv, LogSettled
<1>4. draft'[d] = {} /\ em'[d].pc = "idle"
  BY <1>1 DEF DispInv, Steady
<1> HIDE DEF r, listed
<1> QED
  BY <1>1, <1>2, <1>3, <1>4, EmptyHanded

LEMMA LockKeeps ==
    ASSUME LogInv, DispInv, NEW d \in Dispatchers, DispLock(d)
    PROVE  LogInv' /\ DispInv'
<1> DEFINE free == {e \in disp[d].todo : \A o \in Dispatchers \ {d} : e \notin Locked(o)}
<1>1. /\ disp[d].pc = "listed" /\ d \in Txs
      /\ UNCHANGED <<row, counter, holder, log, draft, entry, rowOf, misfiled>>
      /\ \/ disp' = [disp EXCEPT ![d] = Idle] /\ UNCHANGED em
         \/ GoesOn(d, free, Nothing)
  BY Apart DEF DispLock
<1>2. disp[d].at = 0 /\ Handled(d) = {} /\ draft[d] = {} /\ em[d].pc = "idle"
  BY <1>1 DEF DispInv, Steady
<1>3. disp[d].todo \subseteq Entries
  BY HandledEntries DEF DispInv
<1>4. CASE disp' = [disp EXCEPT ![d] = Idle] /\ UNCHANGED em
  <2>1. DispInv'
    BY <1>1, <1>2, <1>4, IdleFits, EmptyHanded
  <2>2. LogInv'
    BY <1>1, <1>4 DEF LogInv, LogTypeOK, DraftsHeld, DraftsNumbered, EmitsOnce,
                      ChangesOwn, LogNumbered
  <2> QED
    BY <2>1, <2>2
<1>5. CASE GoesOn(d, free, Nothing)
  <2> DEFINE kept == {}
  <2>1. Numbering(kept, counter) /\ draft' = [draft EXCEPT ![d] = kept]
    BY <1>1, <1>2, NumberingEmpty DEF LogInv, LogTypeOK
  <2>2. /\ free \subseteq Entries /\ free \cap DOMAIN Nothing = {}
        /\ free \cup DOMAIN Nothing \subseteq disp[d].todo \cup Handled(d) \cup {disp[d].at}
        /\ \A o \in Dispatchers : o # d => (free \cup DOMAIN Nothing) \cap Locked(o) = {}
    BY <1>3, NothingFits
  <2>3. misfiled' \subseteq Entries /\ misfiled \subseteq misfiled' /\ holder' = holder
    BY <1>1 DEF DispInv, DispTypeOK
  <2>4. kept \subseteq draft[d] /\ (\A ev \in kept : ev.of \in DOMAIN Nothing)
        /\ \A e \in DOMAIN Nothing : Fits(Nothing[e], e, kept, misfiled')
    BY NothingFits
  <2>5. UNCHANGED <<row, counter, log, entry, rowOf>>
    BY <1>1
  <2> HIDE DEF free, kept
  <2> QED
    BY <1>5, <2>1, <2>2, <2>3, <2>4, <2>5, NothingFits, GoesOnKeeps
<1> QED
  BY <1>1, <1>4, <1>5

(* The end of one dispatch: w goes to the row of the entry it is at.       *)
LEMMA HandlesOne ==
    ASSUME LogInv, DispInv, NEW d \in Dispatchers, disp[d].at # 0,
           NEW w \in EntryRecords, NEW kept, kept \subseteq draft[d], Numbering(kept, counter),
           GoesOn(d, disp[d].todo, Written(d, w)), draft' = [draft EXCEPT ![d] = kept],
           \A ev \in draft[d] : ev.of # disp[d].at => ev \in kept,
           misfiled \subseteq misfiled', misfiled' \subseteq Entries,
           Fits(w, disp[d].at, kept, misfiled'),
           holder' = holder \/ (kept = {} /\ holder = d /\ holder' = NoTx),
           UNCHANGED <<row, counter, log, entry, rowOf>>
    PROVE  LogInv' /\ DispInv'
<1> DEFINE e == disp[d].at
           new == Written(d, w)
<1>1. /\ disp[d].todo \subseteq Entries /\ Handled(d) \subseteq Entries /\ e \in Entries
      /\ \A h \in Handled(d) : disp[d].new[h] \in EntryRecords
  BY HandledEntries DEF DispInv
<1>2. /\ DOMAIN new = Handled(d) \cup {e} /\ new[e] = w
      /\ \A h \in Handled(d) : h # e => new[h] = disp[d].new[h]
  BY DEF Written
<1>3. new \in News
  <2>1. new \in [Handled(d) \cup {e} -> EntryRecords]
    BY <1>1 DEF Written
  <2> QED
    BY <1>1, <2>1 DEF News
<1>4. /\ disp[d].pc = "work" /\ e \notin disp[d].todo \cup Handled(d)
      /\ disp[d].todo \cap Handled(d) = {}
      /\ \A ev \in draft[d] : ev.of \in Handled(d) \cup {e}
  BY DEF DispInv, Steady
<1>5. Locked(d) = disp[d].todo \cup Handled(d) \cup {e}
  BY <1>4 DEF Locked
<1>6. \A o \in Dispatchers : o # d => (disp[d].todo \cup DOMAIN new) \cap Locked(o) = {}
  BY <1>2, <1>5 DEF DispInv, Exclusive
<1>7. \A h \in DOMAIN new : Fits(new[h], h, kept, misfiled')
  <2> SUFFICES ASSUME NEW h \in DOMAIN new PROVE Fits(new[h], h, kept, misfiled')
    OBVIOUS
  <2>1. CASE h = e
    BY <1>2, <2>1
  <2>2. CASE h # e
    <3>1. h \in Handled(d) /\ new[h] = disp[d].new[h]
      BY <1>2, <2>2
    <3>2. \A ev \in draft[d] : ev.of = h => ev \in kept
      BY <2>2
    <3> QED
      BY <3>1, <3>2 DEF DispInv, NewDelivered, Fits
  <2> QED
    BY <2>1, <2>2
<1>8. /\ disp[d].todo \cap DOMAIN new = {}
      /\ disp[d].todo \cup DOMAIN new \subseteq disp[d].todo \cup Handled(d) \cup {disp[d].at}
      /\ \A ev \in kept : ev.of \in DOMAIN new
  BY <1>2, <1>4
<1> HIDE DEF e, new
<1> QED
  BY <1>1, <1>3, <1>6, <1>7, <1>8, GoesOnKeeps DEF new

(* The savepoint leaves the draft without a gap, and the lock with it.     *)
LEMMA RollbackKept ==
    ASSUME LogInv, DispInv, NEW d \in Dispatchers, disp[d].at # 0,
           em[d].pc \in {"raised", "appended"}, Rollback(d)
    PROVE  \E kept \in SUBSET draft[d] :
             /\ draft' = [draft EXCEPT ![d] = kept]
             /\ kept = {ev \in draft[d] : ev.of # disp[d].at}
             /\ Numbering(kept, counter)
             /\ holder' = holder \/ (kept = {} /\ holder = d /\ holder' = NoTx)
<1> DEFINE kept == {ev \in draft[d] : ev.of # disp[d].at}
<1>1. draft' = [draft EXCEPT ![d] = kept]
      /\ (holder' = holder \/ (kept = {} /\ holder = d /\ holder' = NoTx))
  BY DEF Rollback
<1>2. d \in Txs /\ em[d].of = disp[d].at /\ counter \in Nat /\ Numbering(draft[d], counter)
  BY Apart DEF DispInv, Steady, LogInv, LogTypeOK, DraftsNumbered
<1>3. Numbering(kept, counter)
  <2>1. CASE em[d].pc = "raised"
    <3>1. kept = draft[d]
      BY <1>2, <2>1 DEF LogInv, EmitsOnce
    <3> QED
      BY <1>2, <3>1
  <2>2. CASE em[d].pc = "appended"
    <3>1. PICK x \in draft[d] : x.of = em[d].of /\ x.seq = counter + Cardinality(draft[d])
      BY <1>2, <2>2 DEF LogInv, EmitsOnce
    <3>2. \A ev \in draft[d] : ev.of = x.of => ev = x
      BY <1>2 DEF LogInv, DraftsNumbered
    <3>3. kept = draft[d] \ {x}
      BY <1>2, <3>1, <3>2
    <3>4. Numbering(draft[d] \ {x}, counter)
      BY <1>2, <3>1, NumberingDrop
    <3> QED
      BY <3>3, <3>4
  <2> QED
    BY <2>1, <2>2
<1> QED
  BY <1>1, <1>3

LEMMA FailedFits ==
    ASSUME NEW w \in EntryRecords, w.status \notin {"none", "void"}
    PROVE  /\ Failed(w) \in EntryRecords /\ Failed(w).status \notin {"none", "void"}
           /\ Failed(w).status \in {w.status, "FAILED"}
BY DEF Failed, EntryRecords

LEMMA DoneKeeps ==
    ASSUME LogInv, DispInv, NEW d \in Dispatchers, DispDone(d)
    PROVE  LogInv' /\ DispInv'
<1> DEFINE e == disp[d].at
           w == [entry[e] EXCEPT !.status = "DISPATCHED"]
<1>1. /\ e # 0 /\ em[d].pc = "appended" /\ GoesOn(d, disp[d].todo, Written(d, w))
      /\ UNCHANGED <<row, counter, holder, log, draft, entry, rowOf, misfiled>>
  BY DEF DispDone
<1>2. e \in Entries /\ d \in Txs /\ em[d].of = e
  BY <1>1, HandledEntries, Apart DEF DispInv, Steady
<1>3. w \in EntryRecords /\ w.status = "DISPATCHED"
  BY <1>2 DEF DispInv, DispTypeOK, EntryRecords
<1>4. \E ev \in draft[d] : ev.of = e
  BY <1>1, <1>2 DEF LogInv, EmitsOnce
<1>5. Fits(w, e, draft[d], misfiled')
  BY <1>3, <1>4 DEF Fits
<1>6. Numbering(draft[d], counter) /\ draft' = [draft EXCEPT ![d] = draft[d]]
  BY <1>1, <1>2 DEF LogInv, LogTypeOK, DraftsNumbered
<1>7. misfiled' = misfiled /\ misfiled \subseteq Entries
  BY <1>1 DEF DispInv, DispTypeOK
<1> HIDE DEF w
<1> QED
  BY <1>1, <1>3, <1>5, <1>6, <1>7, HandlesOne

LEMMA FailsKeeps ==
    ASSUME LogInv, DispInv, NEW d \in Dispatchers, DispFails(d)
    PROVE  LogInv' /\ DispInv'
<1> DEFINE e == disp[d].at
           w == Failed(entry[e])
<1>1. /\ e # 0 /\ em[d].pc \in {"raised", "appended"} /\ Rollback(d)
      /\ GoesOn(d, disp[d].todo, Written(d, w))
      /\ UNCHANGED <<row, counter, log, entry, rowOf, misfiled>>
  BY DEF DispFails
<1>2. e \in Entries /\ entry[e] \in EntryRecords /\ Known(e)
  BY <1>1, HandledEntries DEF DispInv, DispTypeOK, Steady
<1>3. w \in EntryRecords /\ w.status \notin {"none", "void"}
      /\ w.status \in {entry[e].status, "FAILED"}
  BY <1>2, FailedFits DEF Known
<1>4. PICK kept \in SUBSET draft[d] :
             /\ draft' = [draft EXCEPT ![d] = kept]
             /\ kept = {ev \in draft[d] : ev.of # e}
             /\ Numbering(kept, counter)
             /\ holder' = holder \/ (kept = {} /\ holder = d /\ holder' = NoTx)
  BY <1>1, RollbackKept
<1>5. misfiled' = misfiled /\ misfiled \subseteq Entries
  BY <1>1 DEF DispInv, DispTypeOK
<1> HIDE DEF w
<1>6. w.status = "DISPATCHED" /\ e \notin misfiled' => Delivered1(e)
  BY <1>2, <1>3, <1>5 DEF DispInv, DispatchedIsDelivered, Delivered1
<1>7. w.status = "PENDING" => \A ev \in log \cup kept : ev.of # e
  BY <1>2, <1>3, <1>4 DEF DispInv, LogSettled
<1>8. Fits(w, e, kept, misfiled')
  BY <1>3, <1>6, <1>7 DEF Fits
<1>9. \A ev \in draft[d] : ev.of # disp[d].at => ev \in kept
  BY <1>4
<1>10. /\ kept \subseteq draft[d] /\ misfiled \subseteq misfiled' /\ misfiled' \subseteq Entries
       /\ Fits(w, disp[d].at, kept, misfiled')
  BY <1>5, <1>8
<1> QED
  BY <1>1, <1>3, <1>4, <1>9, <1>10, HandlesOne

LEMMA SaveFailsKeeps ==
    ASSUME LogInv, DispInv, NEW d \in Dispatchers, DispSaveFails(d)
    PROVE  LogInv' /\ DispInv'
<1> DEFINE e == disp[d].at
           m == [entry[e] EXCEPT !.status = "DISPATCHED"]
           w == Failed(m)
<1>1. /\ e # 0 /\ em[d].pc \in {"raised", "appended"} /\ Rollback(d)
      /\ GoesOn(d, disp[d].todo, Written(d, w))
      /\ misfiled' = misfiled \cup {e}
      /\ UNCHANGED <<row, counter, log, entry, rowOf>>
  BY DEF DispSaveFails
<1>2. e \in Entries
  BY <1>1, HandledEntries DEF DispInv
<1>3. m \in EntryRecords /\ m.status = "DISPATCHED"
  BY <1>2 DEF DispInv, DispTypeOK, EntryRecords
<1> HIDE DEF m
<1>4. w \in EntryRecords /\ w.status \in {"DISPATCHED", "FAILED"}
  BY <1>3, FailedFits
<1>5. PICK kept \in SUBSET draft[d] :
             /\ draft' = [draft EXCEPT ![d] = kept]
             /\ kept = {ev \in draft[d] : ev.of # e}
             /\ Numbering(kept, counter)
             /\ holder' = holder \/ (kept = {} /\ holder = d /\ holder' = NoTx)
  BY <1>1, RollbackKept
<1> HIDE DEF w
<1>6. Fits(w, e, kept, misfiled')
  BY <1>1, <1>4 DEF Fits
<1>7. \A ev \in draft[d] : ev.of # disp[d].at => ev \in kept
  BY <1>5
<1>8. /\ kept \subseteq draft[d] /\ misfiled \subseteq misfiled' /\ misfiled' \subseteq Entries
      /\ Fits(w, disp[d].at, kept, misfiled')
  BY <1>1, <1>2, <1>6 DEF DispInv, DispTypeOK
<1> QED
  BY <1>1, <1>4, <1>5, <1>7, <1>8, HandlesOne

(* A commit delivers what was drafted and takes the rows of the queue.     *)
LEMMA CommitKeeps ==
    ASSUME LogInv, DispInv, NEW d \in Dispatchers, DispCommit(d)
    PROVE  DispInv'
<1>1. /\ disp[d].pc = "work" /\ disp[d].at = 0 /\ disp[d].todo = {}
      /\ entry' = [e \in Entries |-> IF e \in Handled(d) THEN disp[d].new[e] ELSE entry[e]]
      /\ rowOf' = rowOf \ Delivered(d)
      /\ disp' = [disp EXCEPT ![d] = Idle]
      /\ Publish(d) /\ misfiled' = misfiled /\ d \in Txs
  BY Apart DEF DispCommit
<1>2. /\ draft'[d] = {} /\ em'[d] = Quiet /\ log' = log \cup draft[d]
      /\ \A o \in Dispatchers : o # d => draft'[o] = draft[o] /\ em'[o] = em[o]
  BY <1>1, EndEffect, Apart
<1>3. /\ Handled(d) \subseteq Entries
      /\ \A e \in Handled(d) : disp[d].new[e] \in EntryRecords
      /\ entry \in [Entries -> EntryRecords] /\ disp \in [Dispatchers -> DispRecords]
      /\ rowOf \subseteq Entries /\ misfiled \subseteq Entries
  BY HandledEntries DEF DispInv, DispTypeOK
<1>4. disp'[d] = Idle /\ \A o \in Dispatchers : o # d => disp'[o] = disp[o]
  BY <1>1, <1>3
<1>5. /\ Handled(d)' = {} /\ Locked(d)' = {}
      /\ \A o \in Dispatchers : o # d => Handled(o)' = Handled(o) /\ Locked(o)' = Locked(o)
  BY <1>4, IdleFits DEF Handled, Locked
<1>6. /\ \A e \in Handled(d) : entry'[e] = disp[d].new[e]
      /\ \A e \in Entries \ Handled(d) : entry'[e] = entry[e]
  BY <1>1, <1>3
<1>7. \A e \in Entries : Known(e) => Known(e)'
  BY <1>6 DEF Known, DispInv, NewDelivered
<1>8. \A ev \in draft[d] : ev.of \in Handled(d) /\ ev.of \in Entries /\ ev.by = d
  BY <1>1, Apart DEF DispInv, Steady, LogInv, DraftsNumbered
<1>9. \A o \in Dispatchers : o # d => Handled(o) \cap Handled(d) = {}
  BY <1>1 DEF DispInv, Exclusive, Locked, Steady
<1>10. DispTypeOK'
  <2>1. entry' \in [Entries -> EntryRecords]
    BY <1>1, <1>3
  <2>2. disp' \in [Dispatchers -> DispRecords]
    BY <1>1, <1>3, IdleFits
  <2> QED
    BY <1>1, <1>3, <2>1, <2>2 DEF DispTypeOK
<1>11. Steady'
  <2> SUFFICES ASSUME NEW o \in Dispatchers
               PROVE  (/\ disp[o].pc = "idle" => disp[o].todo = {}
                       /\ disp[o].pc # "work" =>
                             disp[o].at = 0 /\ Handled(o) = {} /\ draft[o] = {} /\ em[o].pc = "idle"
                       /\ disp[o].pc = "work" /\ disp[o].at = 0 => disp[o].todo = {} /\ em[o].pc = "idle"
                       /\ disp[o].at # 0 => em[o].pc # "idle" /\ em[o].of = disp[o].at
                       /\ disp[o].at \notin disp[o].todo \cup Handled(o)
                       /\ disp[o].todo \cap Handled(o) = {}
                       /\ \A ev \in draft[o] : ev.of \in Entries \cap (Handled(o) \cup {disp[o].at})
                       /\ \A e \in Entries : e \in disp[o].todo \cup Handled(o) \cup {disp[o].at} => Known(e))'
    BY DEF Steady
  <2>1. CASE o = d
    BY <1>2, <1>4, <1>5, <2>1, IdleFits, QuietFacts, Apart
  <2>2. CASE o # d
    BY <1>2, <1>4, <1>5, <1>7, <2>2 DEF DispInv, Steady
  <2> QED
    BY <2>1, <2>2
<1>12. Exclusive'
  BY <1>5 DEF DispInv, Exclusive
<1>13. ASSUME NEW e \in Entries, Delivered1(e) PROVE Delivered1(e)'
  BY <1>1, <1>2, <1>13 DEF Delivered1
<1>14. ASSUME NEW e \in Handled(d), disp[d].new[e].status = "DISPATCHED", e \notin misfiled
       PROVE  Delivered1(e)'
  <2>1. (\E ev \in draft[d] : ev.of = e) \/ Delivered1(e)
    BY <1>14 DEF DispInv, NewDelivered
  <2>2. CASE \E ev \in draft[d] : ev.of = e
    BY <1>1, <1>2, <2>2 DEF Delivered1, Delivered
  <2> QED
    BY <1>3, <1>13, <2>1, <2>2
<1>15. DispatchedIsDelivered'
  <2> SUFFICES ASSUME NEW e \in Entries, entry'[e].status = "DISPATCHED", e \notin misfiled
               PROVE  Delivered1(e)'
    BY <1>1 DEF DispatchedIsDelivered, Delivered1
  <2>1. CASE e \in Handled(d)
    BY <1>6, <1>14, <2>1
  <2>2. CASE e \notin Handled(d)
    <3>1. Delivered1(e)
      BY <1>6, <2>2 DEF DispInv, DispatchedIsDelivered, Delivered1
    <3> QED
      BY <1>13, <3>1
  <2> QED
    BY <2>1, <2>2
<1>16. LogSettled'
  <2> SUFFICES ASSUME NEW ev \in log \cup draft[d], ev.of \in Entries
               PROVE  Known(ev.of)' /\ entry'[ev.of].status # "PENDING"
    BY <1>2 DEF LogSettled
  <2>1. CASE ev.of \in Handled(d)
    BY <1>6, <2>1 DEF DispInv, NewDelivered, Known
  <2>2. CASE ev.of \notin Handled(d)
    BY <1>6, <1>7, <1>8, <2>2 DEF DispInv, LogSettled
  <2> QED
    BY <2>1, <2>2
<1>17. NewDelivered'
  <2> SUFFICES ASSUME NEW o \in Dispatchers, NEW e \in Handled(o)'
               PROVE  /\ disp'[o].new[e].status \notin {"none", "void"}
                      /\ disp'[o].new[e].status = "DISPATCHED" /\ e \notin misfiled =>
                            (\E ev \in draft'[o] : ev.of = e) \/ Delivered1(e)'
                      /\ disp'[o].new[e].status = "PENDING" => \A ev \in log' \cup draft'[o] : ev.of # e
    BY <1>1 DEF NewDelivered
  <2>1. o # d /\ e \in Handled(o)
    BY <1>5
  <2>2. e \in Entries /\ \A ev \in draft[d] : ev.of # e
    BY <1>8, <1>9, <2>1, HandledEntries DEF DispInv
  <2>3. disp'[o] = disp[o] /\ draft'[o] = draft[o]
    BY <1>2, <1>4, <2>1
  <2>4. Delivered1(e) => Delivered1(e)'
    BY <1>13, <2>2
  <2> QED
    BY <1>2, <2>1, <2>2, <2>3, <2>4 DEF DispInv, NewDelivered
<1>18. NotAgain'
  <2> SUFFICES ASSUME NEW o \in Dispatchers, NEW ev \in log', ev.by = o, ev.of \in Entries
               PROVE  ev.of \notin disp'[o].todo \cup Handled(o)' \cup {disp'[o].at}
    BY DEF NotAgain
  <2>1. CASE o = d
    BY <1>4, <1>5, <2>1, IdleFits, Apart
  <2>2. CASE o # d
    BY <1>2, <1>4, <1>5, <1>8, <2>2 DEF DispInv, NotAgain
  <2> QED
    BY <2>1, <2>2
<1>19. DeliveredOncePerDispatcher'
  <2> SUFFICES ASSUME NEW e1 \in log \cup draft[d], NEW e2 \in log \cup draft[d],
                      e1.of \in Entries, e1.of = e2.of, e1.by = e2.by
               PROVE  e1 = e2
    BY <1>2 DEF DeliveredOncePerDispatcher
  <2>1. ASSUME NEW x \in log, NEW y \in draft[d], x.of = y.of, x.by = y.by PROVE FALSE
    BY <1>8, <2>1 DEF DispInv, NotAgain
  <2>2. \A x, y \in draft[d] : x.of = y.of => x = y
    BY <1>1 DEF LogInv, DraftsNumbered
  <2> QED
    BY <2>1, <2>2 DEF DispInv, DeliveredOncePerDispatcher
<1> QED
  BY <1>10, <1>11, <1>12, <1>15, <1>16, <1>17, <1>18, <1>19 DEF DispInv

LEMMA DiesKeeps ==
    ASSUME LogInv, DispInv, NEW d \in Dispatchers, DispDies(d)
    PROVE  LogInv' /\ DispInv'
<1>1. /\ disp' = [disp EXCEPT ![d] = Idle] /\ Discard(d) /\ d \in Txs
      /\ UNCHANGED <<log, entry, rowOf, misfiled>>
  BY Apart DEF DispDies, Discard
<1>2. /\ draft'[d] = {} /\ em'[d] = Quiet
      /\ \A o \in Dispatchers : o # d => draft'[o] = draft[o] /\ em'[o] = em[o]
  BY <1>1, EndEffect, Apart
<1>3. DispInv'
  BY <1>1, <1>2, IdleFits, QuietFacts, EmptyHanded
<1> QED
  BY <1>1, <1>3, DiscardKeeps
-----------------------------------------------------------------------------
(* What is announced has been made, when it is announced or in the same    *)
(* transaction.                                                            *)
MadeFirst ==
    /\ made \subseteq Topics
    /\ \A ev \in log : ev.of \in made
    /\ \A c \in StepChanges : em[c].pc # "idle" => c \in made
    /\ \A e \in Entries : Known(e) => e \in made

Told ==
    /\ client \in [pc : {"away", "absent", "synced", "on"}, since : Nat, view : SUBSET Topics]
    /\ client.pc \in {"away", "absent"} \/ client.since \in 0 .. counter
    /\ IsFiniteSet(log)

ClientInv == MadeFirst /\ Told /\ NoUpdateSkipped

OutboxInv == LogInv /\ DispInv /\ ClientInv

LEMMA AwayFacts ==
    \A a \in {Away, [Away EXCEPT !.pc = "absent"]} :
        /\ a \in [pc : {"away", "absent", "synced", "on"}, since : Nat, view : SUBSET Topics]
        /\ a.pc \in {"away", "absent"}
BY DEF Away

LEMMA InitHolds == OutboxInit => OutboxInv
<1> SUFFICES ASSUME OutboxInit PROVE OutboxInv
  OBVIOUS
<1>1. LogInv /\ DispInv
  BY LogInitHolds, OutboxInitHolds DEF OutboxInit
<1>2. \A e \in Entries : ~Known(e)
  BY DEF OutboxInit, Known, Unwritten
<1>3. MadeFirst
  BY <1>2, QuietFacts, Apart DEF MadeFirst, OutboxInit, LogInit, Emitters, Topics
<1>4. Told /\ NoUpdateSkipped
  BY AwayFacts, FS_EmptySet DEF Told, NoUpdateSkipped, OutboxInit, LogInit
<1> QED
  BY <1>1, <1>3, <1>4 DEF OutboxInv, ClientInv

(* New events have numbers no client was told, so what it was shown stays  *)
(* enough.                                                                 *)
LEMMA ClientKept ==
    ASSUME LogInv, ClientInv, client' = client,
           NEW t \in Txs,
           \/ log' = log /\ counter' = counter
           \/ Publish(t) /\ \A ev \in draft[t] : ev.of \in made',
           made \subseteq made', made' \subseteq Topics,
           \A c \in StepChanges : em'[c].pc # "idle" => c \in made',
           \A e \in Entries : Known(e)' => e \in made'
    PROVE  ClientInv'
<1>1. /\ counter \in Nat /\ Numbering(draft[t], counter) /\ Cardinality(draft[t]) \in Nat
      /\ \A ev \in log : ev.seq \in 1 .. counter
  BY NumberingCount DEF LogInv, LogTypeOK, DraftsNumbered, LogNumbered
<1>2. CASE log' = log /\ counter' = counter
  <2>1. MadeFirst'
    BY <1>2 DEF ClientInv, MadeFirst
  <2> QED
    BY <1>2, <2>1 DEF ClientInv, Told, NoUpdateSkipped
<1>3. CASE Publish(t) /\ \A ev \in draft[t] : ev.of \in made'
  <2>1. log' = log \cup draft[t] /\ counter' = counter + Cardinality(draft[t])
    BY <1>3 DEF Publish
  <2>2. MadeFirst'
    BY <1>3, <2>1 DEF ClientInv, MadeFirst
  <2>3. IsFiniteSet(log')
    <3>1. IsFiniteSet(log) /\ IsFiniteSet(draft[t])
      BY <1>1 DEF ClientInv, Told, Numbering
    <3> QED
      BY <2>1, <3>1, FS_Union
  <2>4. Told'
    BY <1>1, <2>1, <2>3 DEF ClientInv, Told
  <2>5. NoUpdateSkipped'
    <3> SUFFICES ASSUME client.pc = "on", NEW ev \in log', ev.seq <= client.since
                 PROVE  ev.of \in client.view
      BY DEF NoUpdateSkipped
    <3>1. client.since \in 0 .. counter
      BY DEF ClientInv, Told
    <3>2. CASE ev \in log
      BY <3>2 DEF ClientInv, NoUpdateSkipped
    <3>3. CASE ev \in draft[t]
      <4>1. ev.seq \in (counter + 1) .. (counter + Cardinality(draft[t]))
        BY <1>1, <3>3 DEF Numbering
      <4> QED
        BY <1>1, <3>1, <4>1
    <3> QED
      BY <2>1, <3>2, <3>3
  <2> QED
    BY <2>2, <2>4, <2>5 DEF ClientInv
<1> QED
  BY <1>2, <1>3

LEMMA CatchUpKeeps ==
    ASSUME LogInv, ClientInv, CatchUp, UNCHANGED outboxVars
    PROVE  ClientInv'
<1> DEFINE later == {ev \in log : ev.seq > client.since}
           page  == {ev \in later :
                        Cardinality({e \in later : e.seq <= ev.seq}) <= PageSize}
<1>1. client.pc = "on" /\ UNCHANGED <<made, row, counter, holder, log, draft, em, writer>>
  BY DEF CatchUp, logVars
<1>2. PICK last \in page :
             /\ \A ev \in page : ev.seq <= last.seq
             /\ client' = [client EXCEPT !.since = last.seq,
                                        !.view = client.view \cup {ev.of : ev \in page}]
  BY DEF CatchUp
<1>3. counter \in Nat /\ \A ev \in log : ev.seq \in 1 .. counter
  BY DEF LogInv, LogTypeOK, LogNumbered
<1>4. client.since \in 0 .. counter /\ IsFiniteSet(log)
  BY <1>1 DEF ClientInv, Told
<1>5. /\ last \in log /\ last.seq \in 1 .. counter /\ PageSize \in Nat
      /\ Cardinality({e \in later : e.seq <= last.seq}) <= PageSize
  BY <1>2, <1>3, EventAssumption
<1>6. ASSUME NEW ev \in log, ev.seq <= last.seq, ev.seq > client.since
      PROVE  ev \in page
  <2> DEFINE A == {e \in later : e.seq <= ev.seq}
             B == {e \in later : e.seq <= last.seq}
  <2>1. A \subseteq B
    BY <1>3, <1>5, <1>6
  <2>2. B \subseteq log
    OBVIOUS
  <2>3. IsFiniteSet(B)
    BY <1>4, <2>2, FS_Subset
  <2>4. Cardinality(A) <= Cardinality(B)
    BY <2>1, <2>3, FS_Subset
  <2>5. Cardinality(A) \in Nat /\ Cardinality(B) \in Nat
    BY <2>1, <2>3, FS_Subset, FS_CardinalityType
  <2>6. Cardinality(A) <= PageSize
    BY <1>5, <2>4, <2>5
  <2> QED
    BY <1>6, <2>6
<1>7. client \in [pc : {"away", "absent", "synced", "on"}, since : Nat, view : SUBSET Topics]
  BY DEF ClientInv, Told
<1>8. page \subseteq log /\ \A ev \in log : ev.of \in Topics
  BY DEF LogInv, LogTypeOK, Events
<1> HIDE DEF page
<1>9. client'.pc = "on" => \A ev \in log : ev.seq <= client'.since => ev.of \in client'.view
  <2> SUFFICES ASSUME client'.pc = "on", NEW ev \in log, ev.seq <= client'.since
               PROVE  ev.of \in client'.view
    OBVIOUS
  <2>1. client'.since = last.seq /\ client'.view = client.view \cup {e.of : e \in page}
    BY <1>2, <1>7
  <2>2. CASE ev.seq <= client.since
    BY <1>1, <2>1, <2>2 DEF ClientInv, NoUpdateSkipped
  <2>3. CASE ev.seq > client.since
    BY <1>6, <2>1, <2>3
  <2> QED
    BY <1>3, <1>4, <2>2, <2>3
<1>10. Told'
  <2>1. client'.view \subseteq Topics /\ client'.since = last.seq /\ client'.pc = "on"
    BY <1>1, <1>2, <1>7, <1>8
  <2>2. client' \in [pc : {"away", "absent", "synced", "on"}, since : Nat, view : SUBSET Topics]
    <3> DEFINE shown == client.view \cup {e.of : e \in page}
    <3>1. shown \in SUBSET Topics /\ last.seq \in Nat
      BY <1>3, <1>5, <1>7, <1>8
    <3>2. client' = [client EXCEPT !.since = last.seq, !.view = shown]
      BY <1>2
    <3> HIDE DEF shown
    <3> QED
      BY <1>7, <3>1, <3>2
  <2> QED
    BY <1>1, <1>3, <1>4, <1>5, <2>1, <2>2 DEF Told
<1>11. MadeFirst'
  BY <1>1 DEF ClientInv, MadeFirst, Known, outboxVars
<1> QED
  BY <1>1, <1>9, <1>10, <1>11 DEF ClientInv, NoUpdateSkipped
-----------------------------------------------------------------------------
LEMMA Nexts ==
    ASSUME [OutboxNext]_vars
    PROVE  \/ UNCHANGED vars
           \/ UNCHANGED outboxVars /\ \E t \in Emitters : Emit(t)
           \/ UNCHANGED outboxVars /\ \E c \in StatusChanges :
                  StatusChange(c) \/ StatusCommits(c) \/ StatusUndone(c)
           \/ UNCHANGED outboxVars /\ \E c \in StepChanges : StepChange(c) \/ StepTold(c)
           \/ UNCHANGED outboxVars /\ (Connect \/ Snapshot \/ CatchUp \/ Disconnect)
           \/ \E e \in Entries : WriteEntry(e)
           \/ \E d \in Dispatchers :
                  \/ DispList(d) \/ DispLock(d) \/ (Emit(d) /\ UNCHANGED outboxVars)
                  \/ DispDone(d) \/ DispFails(d) \/ DispSaveFails(d) \/ DispCommit(d)
                  \/ DispDies(d)
<1>1. \/ UNCHANGED vars
      \/ LogNext /\ UNCHANGED outboxVars
      \/ \E e \in Entries : WriteEntry(e)
      \/ \E d \in Dispatchers : Dispatch(d) \/ DispDies(d)
  BY DEF OutboxNext
<1>2. CASE LogNext /\ UNCHANGED outboxVars
  BY <1>2, Zenon DEF LogNext
<1>3. CASE \E d \in Dispatchers : Dispatch(d) \/ DispDies(d)
  <2>1. PICK d \in Dispatchers : Dispatch(d) \/ DispDies(d)
    BY <1>3
  <2>2. \/ DispList(d) \/ DispLock(d) \/ (Emit(d) /\ UNCHANGED outboxVars)
        \/ DispDone(d) \/ DispFails(d) \/ DispSaveFails(d) \/ DispCommit(d)
        \/ DispDies(d)
    BY <2>1, Zenon DEF Dispatch
  <2> QED
    BY <2>2
<1> QED
  BY <1>1, <1>2, <1>3, Zenon

LEMMA LogStep == OutboxInv /\ [OutboxNext]_vars => LogInv'
<1> SUFFICES ASSUME OutboxInv, [OutboxNext]_vars PROVE LogInv'
  OBVIOUS
<1>0. LogInv /\ DispInv /\ ClientInv
  BY DEF OutboxInv
<1>1. ASSUME UNCHANGED logVars PROVE LogInv'
  BY <1>0, <1>1 DEF logVars, LogInv, LogTypeOK, DraftsHeld, DraftsNumbered, EmitsOnce,
     ChangesOwn, LogNumbered
<1>2. CASE UNCHANGED vars
  BY <1>1, <1>2 DEF vars, logVars
<1>3. CASE \E t \in Emitters : Emit(t)
  BY <1>0, <1>3, EmitKeeps, Apart
<1>4. ASSUME NEW c \in StatusChanges, StatusChange(c) \/ StatusCommits(c) \/ StatusUndone(c)
      PROVE  LogInv'
  <2>1. c \in Emitters /\ c \in Txs
    BY Apart DEF Emitters
  <2>2. CASE StatusChange(c)
    BY <1>0, <2>1, <2>2, EmitStarts DEF StatusChange
  <2>3. CASE StatusCommits(c)
    BY <1>0, <2>1, <2>3, PublishKeeps DEF StatusCommits
  <2>4. CASE StatusUndone(c)
    BY <1>0, <2>1, <2>4, DiscardKeeps DEF StatusUndone
  <2> QED
    BY <1>4, <2>2, <2>3, <2>4
<1>5. ASSUME NEW c \in StepChanges, StepChange(c) \/ StepTold(c)
      PROVE  LogInv'
  <2>1. c \in Emitters /\ c \in Txs
    BY Apart DEF Emitters
  <2>2. CASE StepChange(c)
    <3>1. em[c] = Quiet
      BY <1>0, <2>1, <2>2 DEF StepChange, ClientInv, MadeFirst, LogInv, EmitsOnce
    <3> QED
      BY <1>0, <2>1, <2>2, <3>1, EmitStarts DEF StepChange
  <2>3. CASE StepTold(c)
    BY <1>0, <2>1, <2>3, PublishKeeps, DiscardKeeps DEF StepTold
  <2> QED
    BY <1>5, <2>2, <2>3
<1>6. CASE Connect \/ Snapshot \/ CatchUp \/ Disconnect
  BY <1>1, <1>6 DEF Connect, Snapshot, CatchUp, Disconnect
<1>7. CASE \E e \in Entries : WriteEntry(e)
  BY <1>1, <1>7 DEF WriteEntry
<1>8. ASSUME NEW d \in Dispatchers,
             \/ DispList(d) \/ DispLock(d) \/ (Emit(d) /\ UNCHANGED outboxVars)
             \/ DispDone(d) \/ DispFails(d) \/ DispSaveFails(d) \/ DispCommit(d)
             \/ DispDies(d)
      PROVE  LogInv'
  <2>1. CASE DispList(d)
    BY <1>1, <2>1 DEF DispList
  <2>2. CASE Emit(d) \/ DispCommit(d)
    BY <1>0, <2>2, EmitKeeps, PublishKeeps, Apart DEF DispCommit
  <2> QED
    BY <1>0, <1>8, <2>1, <2>2, LockKeeps, DoneKeeps, FailsKeeps, SaveFailsKeeps, DiesKeeps
<1> QED
  BY <1>2, <1>3, <1>4, <1>5, <1>6, <1>7, <1>8, Nexts

LEMMA DispStep == OutboxInv /\ [OutboxNext]_vars => DispInv'
<1> SUFFICES ASSUME OutboxInv, [OutboxNext]_vars PROVE DispInv'
  OBVIOUS
<1>0. LogInv /\ DispInv /\ ClientInv /\ draft \in [Txs -> SUBSET Events]
      /\ em \in [Txs -> [pc : EmitStates, of : Topics \cup {NoTx}]]
  BY DEF OutboxInv, LogInv, LogTypeOK
<1>1. ASSUME UNCHANGED outboxVars, NEW c \in Emitters,
             \/ log' = log /\ \A u \in Txs : u # c => draft'[u] = draft[u] /\ em'[u] = em[u]
             \/ Publish(c)
      PROVE  DispInv'
  <2>1. c \in Txs /\ c \notin Dispatchers /\ UNCHANGED <<entry, rowOf, disp, misfiled>>
    BY <1>1, Apart DEF outboxVars
  <2>2. \A ev \in draft[c] : ev.of \notin Entries /\ ev.by \notin Dispatchers
    BY <1>0, <2>1, Apart DEF LogInv, ChangesOwn, DraftsNumbered
  <2>3. CASE Publish(c)
    <3>1. log' = log \cup draft[c] /\ \A d \in Dispatchers : draft'[d] = draft[d] /\ em'[d] = em[d]
      BY <1>0, <2>1, <2>3, EndEffect, Apart
    <3> QED
      BY <1>0, <2>1, <2>2, <3>1, ChangesAside
  <2>4. CASE log' = log /\ \A u \in Txs : u # c => draft'[u] = draft[u] /\ em'[u] = em[u]
    <3> DEFINE X == {}
    <3>1. /\ log' = log \cup X /\ \A d \in Dispatchers : draft'[d] = draft[d] /\ em'[d] = em[d]
          /\ \A ev \in X : ev.of \notin Entries /\ ev.by \notin Dispatchers
      BY <2>1, <2>4, Apart
    <3> HIDE DEF X
    <3> QED
      BY <1>0, <2>1, <3>1, ChangesAside
  <2> QED
    BY <1>1, <2>3, <2>4
<1>2. ASSUME UNCHANGED <<logVars, outboxVars>> PROVE DispInv'
  <2> DEFINE X == {}
  <2>1. /\ log' = log \cup X /\ \A d \in Dispatchers : draft'[d] = draft[d] /\ em'[d] = em[d]
        /\ \A ev \in X : ev.of \notin Entries /\ ev.by \notin Dispatchers
        /\ UNCHANGED <<entry, rowOf, disp, misfiled>>
    BY <1>2 DEF logVars, outboxVars
  <2> HIDE DEF X
  <2> QED
    BY <1>0, <2>1, ChangesAside
<1>3. CASE UNCHANGED vars
  BY <1>2, <1>3 DEF vars
<1>4. ASSUME UNCHANGED outboxVars, NEW t \in Emitters, Emit(t) PROVE DispInv'
  BY <1>0, <1>1, <1>4, EmitEffect, Apart
<1>5. ASSUME UNCHANGED outboxVars, NEW c \in StatusChanges,
             StatusChange(c) \/ StatusCommits(c) \/ StatusUndone(c)
      PROVE  DispInv'
  <2>1. c \in Emitters /\ c \in Txs
    BY Apart DEF Emitters
  <2>2. CASE StatusChange(c)
    BY <1>0, <1>1, <1>5, <2>1, <2>2 DEF StatusChange
  <2>3. CASE StatusCommits(c)
    BY <1>1, <1>5, <2>1, <2>3 DEF StatusCommits
  <2>4. CASE StatusUndone(c)
    BY <1>0, <1>1, <1>5, <2>1, <2>4, EndEffect DEF StatusUndone
  <2> QED
    BY <1>5, <2>2, <2>3, <2>4
<1>6. ASSUME UNCHANGED outboxVars, NEW c \in StepChanges, StepChange(c) \/ StepTold(c)
      PROVE  DispInv'
  <2>1. c \in Emitters /\ c \in Txs
    BY Apart DEF Emitters
  <2>2. CASE StepChange(c)
    BY <1>0, <1>1, <1>6, <2>1, <2>2 DEF StepChange
  <2>3. CASE StepTold(c)
    BY <1>0, <1>1, <1>6, <2>1, <2>3, EndEffect DEF StepTold
  <2> QED
    BY <1>6, <2>2, <2>3
<1>7. CASE UNCHANGED outboxVars /\ (Connect \/ Snapshot \/ CatchUp \/ Disconnect)
  BY <1>2, <1>7 DEF Connect, Snapshot, CatchUp, Disconnect
<1>8. CASE \E e \in Entries : WriteEntry(e)
  BY <1>0, <1>8, WriteKeeps
<1>9. ASSUME NEW d \in Dispatchers,
             \/ DispList(d) \/ DispLock(d) \/ (Emit(d) /\ UNCHANGED outboxVars)
             \/ DispDone(d) \/ DispFails(d) \/ DispSaveFails(d) \/ DispCommit(d)
             \/ DispDies(d)
      PROVE  DispInv'
  BY <1>0, <1>9, ListKeeps, LockKeeps, EmitDispatched, DoneKeeps, FailsKeeps, SaveFailsKeeps,
     CommitKeeps, DiesKeeps
<1> QED
  BY <1>3, <1>4, <1>5, <1>6, <1>7, <1>8, <1>9, Nexts

LEMMA ClientStep == OutboxInv /\ [OutboxNext]_vars => ClientInv'
<1> SUFFICES ASSUME OutboxInv, [OutboxNext]_vars PROVE ClientInv'
  OBVIOUS
<1>0. /\ LogInv /\ DispInv /\ ClientInv /\ made \subseteq Topics
      /\ draft \in [Txs -> SUBSET Events]
      /\ em \in [Txs -> [pc : EmitStates, of : Topics \cup {NoTx}]]
      /\ entry \in [Entries -> EntryRecords]
  BY DEF OutboxInv, LogInv, LogTypeOK, ClientInv, MadeFirst, DispInv, DispTypeOK
<1>1. ASSUME UNCHANGED <<client, log, counter, made>>,
             \A c \in StepChanges : em'[c].pc # "idle" => em[c].pc # "idle",
             \A e \in Entries : Known(e)' => Known(e)
      PROVE  ClientInv'
  BY <1>0, <1>1 DEF ClientInv, MadeFirst, Told, NoUpdateSkipped
<1>2. ASSUME UNCHANGED outboxVars PROVE \A e \in Entries : Known(e)' = Known(e)
  BY <1>2 DEF outboxVars, Known
<1>3. CASE UNCHANGED vars
  BY <1>1, <1>2, <1>3 DEF vars, logVars
<1>4. ASSUME UNCHANGED outboxVars, NEW t \in Txs, Emit(t) PROVE ClientInv'
  <2>1. UNCHANGED <<client, log, counter, made>>
    BY <1>4 DEF Emit, GetCounter, NoCounter, CreateCounter, CreateCollides
  <2>2. \A c \in StepChanges : em'[c].pc # "idle" => em[c].pc # "idle"
    BY <1>0, <1>4, EmitEffect, Apart DEF Emitters
  <2> QED
    BY <1>1, <1>2, <1>4, <2>1, <2>2
<1>5. ASSUME UNCHANGED outboxVars, NEW c \in StatusChanges,
             StatusChange(c) \/ StatusCommits(c) \/ StatusUndone(c)
      PROVE  ClientInv'
  <2>1. c \in Emitters /\ c \in Txs /\ c \notin StepChanges /\ c \in Topics /\ StepChanges \subseteq Txs
    BY Apart DEF Emitters, Topics
  <2>2. CASE StatusChange(c)
    BY <1>0, <1>1, <1>2, <1>5, <2>1, <2>2 DEF StatusChange
  <2>3. CASE StatusCommits(c)
    <3>1. /\ made' = made \cup {c} /\ client' = client /\ Publish(c)
          /\ \A ev \in draft[c] : ev.of = c
      BY <1>0, <2>1, <2>3 DEF StatusCommits, LogInv, ChangesOwn
    <3>2. \A b \in StepChanges : em'[b].pc # "idle" => b \in made'
      BY <1>0, <2>1, <3>1, EndEffect DEF ClientInv, MadeFirst
    <3>3. \A e \in Entries : Known(e)' => e \in made'
      BY <1>0, <1>2, <1>5, <3>1 DEF ClientInv, MadeFirst
    <3>4. made' \subseteq Topics /\ made \subseteq made' /\ \A ev \in draft[c] : ev.of \in made'
      BY <1>0, <2>1, <3>1
    <3> QED
      BY <1>0, <2>1, <3>1, <3>2, <3>3, <3>4, ClientKept
  <2>4. CASE StatusUndone(c)
    <3>1. UNCHANGED <<client, log, counter, made>>
      BY <2>4 DEF StatusUndone, Discard
    <3>2. \A b \in StepChanges : em'[b].pc # "idle" => em[b].pc # "idle"
      BY <1>0, <2>1, <2>4, EndEffect DEF StatusUndone
    <3> QED
      BY <1>1, <1>2, <1>5, <3>1, <3>2
  <2> QED
    BY <1>5, <2>2, <2>3, <2>4
<1>6. ASSUME UNCHANGED outboxVars, NEW c \in StepChanges, StepChange(c) \/ StepTold(c)
      PROVE  ClientInv'
  <2>1. c \in Emitters /\ c \in Txs /\ c \in Topics /\ StepChanges \subseteq Txs
    BY Apart DEF Emitters, Topics
  <2>2. CASE StepChange(c)
    <3>1. /\ made' = made \cup {c} /\ UNCHANGED <<client, log, counter>>
          /\ em' = [em EXCEPT ![c] = [pc |-> "emit", of |-> c]]
      BY <2>2 DEF StepChange
    <3>2. \A b \in StepChanges : em'[b].pc # "idle" => b \in made'
      BY <1>0, <2>1, <3>1 DEF ClientInv, MadeFirst
    <3>3. \A e \in Entries : Known(e)' => e \in made'
      BY <1>0, <1>2, <1>6, <3>1 DEF ClientInv, MadeFirst
    <3>4. made' \subseteq Topics /\ made \subseteq made'
      BY <1>0, <2>1, <3>1
    <3> QED
      BY <1>0, <2>1, <3>1, <3>2, <3>3, <3>4, ClientKept
  <2>3. CASE em[c].pc = "appended" /\ Publish(c) /\ UNCHANGED <<made, client>>
    <3>1. \A ev \in draft[c] : ev.of \in made'
      BY <1>0, <2>1, <2>3 DEF LogInv, ChangesOwn, ClientInv, MadeFirst
    <3>2. \A b \in StepChanges : em'[b].pc # "idle" => b \in made'
      BY <1>0, <2>1, <2>3, EndEffect, QuietFacts DEF ClientInv, MadeFirst
    <3>3. \A e \in Entries : Known(e)' => e \in made'
      BY <1>0, <1>2, <1>6, <2>3 DEF ClientInv, MadeFirst
    <3> QED
      BY <1>0, <2>1, <2>3, <3>1, <3>2, <3>3, ClientKept
  <2>4. CASE em[c].pc = "raised" /\ Discard(c) /\ UNCHANGED <<made, client>>
    <3>1. UNCHANGED <<client, log, counter, made>>
      BY <2>4 DEF Discard
    <3>2. \A b \in StepChanges : em'[b].pc # "idle" => em[b].pc # "idle"
      BY <1>0, <2>1, <2>4, EndEffect, QuietFacts
    <3> QED
      BY <1>1, <1>2, <1>6, <3>1, <3>2
  <2> QED
    BY <1>6, <2>2, <2>3, <2>4 DEF StepTold
<1>7. ASSUME UNCHANGED outboxVars, Connect \/ Snapshot \/ CatchUp \/ Disconnect
      PROVE  ClientInv'
  <2>1. CASE CatchUp
    BY <1>0, <1>7, <2>1, CatchUpKeeps
  <2>2. CASE Connect \/ Snapshot \/ Disconnect
    <3>1. UNCHANGED <<made, counter, log, em>> /\ counter \in Nat
      BY <1>0, <2>2 DEF Connect, Snapshot, Disconnect, logVars, LogInv, LogTypeOK
    <3>2. MadeFirst'
      BY <1>0, <1>2, <1>7, <3>1 DEF ClientInv, MadeFirst
    <3>3. Told' /\ NoUpdateSkipped'
      <4>1. CASE Connect
        BY <1>0, <3>1, <4>1 DEF Connect, ClientInv, Told, NoUpdateSkipped
      <4>2. CASE Snapshot
        <5>1. client.pc = "synced" /\ client' = [client EXCEPT !.pc = "on", !.view = made]
          BY <4>2 DEF Snapshot
        <5>2. client \in [pc : {"away", "absent", "synced", "on"}, since : Nat, view : SUBSET Topics]
          BY <1>0 DEF ClientInv, Told
        <5>3. /\ client'.pc = "on" /\ client'.view = made /\ client'.since = client.since
              /\ client' \in [pc : {"away", "absent", "synced", "on"}, since : Nat, view : SUBSET Topics]
          BY <1>0, <5>1, <5>2
        <5> QED
          BY <1>0, <3>1, <5>1, <5>3 DEF ClientInv, Told, NoUpdateSkipped, MadeFirst
      <4>3. CASE Disconnect
        BY <1>0, <3>1, <4>3, AwayFacts DEF Disconnect, ClientInv, Told, NoUpdateSkipped
      <4> QED
        BY <2>2, <4>1, <4>2, <4>3
    <3> QED
      BY <3>2, <3>3 DEF ClientInv
  <2> QED
    BY <1>7, <2>1, <2>2
<1>8. ASSUME NEW e \in Entries, WriteEntry(e) PROVE ClientInv'
  <2>1. /\ made' = made \cup {e} /\ UNCHANGED <<client, log, counter, em>>
        /\ entry' = [entry EXCEPT ![e].status = "PENDING"]
    BY <1>8 DEF WriteEntry, logVars
  <2>2. \A b \in StepChanges : em'[b].pc # "idle" => b \in made'
    BY <1>0, <2>1 DEF ClientInv, MadeFirst
  <2>3. \A f \in Entries : Known(f)' => f \in made'
    BY <1>0, <2>1 DEF ClientInv, MadeFirst, Known
  <2>4. made' \subseteq Topics /\ made \subseteq made'
    BY <1>0, <2>1 DEF Topics
  <2> QED
    BY <1>0, <2>1, <2>2, <2>3, <2>4 DEF ClientInv, MadeFirst, Told, NoUpdateSkipped
<1>9. ASSUME NEW d \in Dispatchers,
             \/ DispList(d) \/ DispLock(d)
             \/ DispDone(d) \/ DispFails(d) \/ DispSaveFails(d) \/ DispCommit(d)
             \/ DispDies(d)
      PROVE  ClientInv'
  <2>0. d \in Txs /\ d \notin StepChanges /\ StepChanges \subseteq Txs
    BY Apart DEF Emitters
  <2>1. ASSUME NEW left, NEW new, GoesOn(d, left, new)
        PROVE  \A c \in StepChanges : em'[c] = em[c]
    BY <1>0, <2>0, <2>1 DEF GoesOn
  <2>2. CASE DispList(d) \/ DispLock(d) \/ DispDone(d) \/ DispFails(d) \/ DispSaveFails(d)
    <3>1. UNCHANGED <<client, log, counter, made, entry>>
      BY <2>2 DEF DispList, DispLock, DispDone, DispFails, DispSaveFails, logVars
    <3>2. \A c \in StepChanges : em'[c] = em[c]
      BY <2>1, <2>2 DEF DispList, DispLock, DispDone, DispFails, DispSaveFails, logVars
    <3> QED
      BY <1>1, <3>1, <3>2 DEF Known
  <2>3. CASE DispDies(d)
    <3>1. UNCHANGED <<client, log, counter, made, entry>> /\ Discard(d)
      BY <2>3 DEF DispDies, Discard
    <3>2. \A c \in StepChanges : em'[c] = em[c]
      BY <1>0, <2>0, <3>1, EndEffect
    <3> QED
      BY <1>1, <3>1, <3>2 DEF Known
  <2>4. CASE DispCommit(d)
    <3>1. /\ Publish(d) /\ UNCHANGED <<client, made>> /\ disp[d].pc = "work"
          /\ entry' = [e \in Entries |-> IF e \in Handled(d) THEN disp[d].new[e] ELSE entry[e]]
      BY <2>4 DEF DispCommit
    <3>2. \A ev \in draft[d] : ev.of \in made
      BY <1>0 DEF DispInv, Steady, ClientInv, MadeFirst
    <3>3. \A c \in StepChanges : em'[c].pc # "idle" => c \in made
      BY <1>0, <2>0, <3>1, EndEffect DEF ClientInv, MadeFirst
    <3>4. \A e \in Entries : Known(e)' => e \in made
      BY <1>0, <3>1 DEF DispInv, Steady, ClientInv, MadeFirst, Known
    <3> QED
      BY <1>0, <2>0, <3>1, <3>2, <3>3, <3>4, ClientKept
  <2> QED
    BY <1>9, <2>2, <2>3, <2>4
<1> QED
  BY <1>3, <1>4, <1>5, <1>6, <1>7, <1>8, <1>9, Nexts, Apart

LEMMA OutboxInductive == OutboxSpec => []OutboxInv
<1>1. OutboxInv /\ [OutboxNext]_vars => OutboxInv'
  BY LogStep, DispStep, ClientStep DEF OutboxInv
<1> QED
  BY InitHolds, <1>1, PTL DEF OutboxSpec
-----------------------------------------------------------------------------
(* Nobody is ever told a number behind which an event appears later: the   *)
(* counter's lock is kept from the number to the commit, also through the  *)
(* savepoints of the dispatchers.                                          *)
THEOREM NumbersHaveNoGap == OutboxSpec => []Gapless
<1>1. OutboxInv => Gapless
  <2> SUFFICES ASSUME LogNumbered, counter \in Nat PROVE Gapless
    BY DEF OutboxInv, LogInv, LogTypeOK
  <2> QED
    BY DEF LogNumbered, Gapless
<1> QED
  BY OutboxInductive, <1>1, PTL

(* A client that pages through the events after the number it was told has *)
(* seen every change up to the number it is at.                            *)
THEOREM ClientMissesNothing == OutboxSpec => []NoUpdateSkipped
<1>1. OutboxInv => NoUpdateSkipped
  BY DEF OutboxInv, ClientInv
<1> QED
  BY OutboxInductive, <1>1, PTL

(* An entry marked DISPATCHED was delivered, whoever else handled it and   *)
(* whatever was rolled back.                                               *)
THEOREM MarkedIsDelivered == OutboxSpec => []DispatchedIsDelivered
<1>1. OutboxInv => DispatchedIsDelivered
  BY DEF OutboxInv, DispInv
<1> QED
  BY OutboxInductive, <1>1, PTL

(* The deliveries of an entry are bounded by the dispatchers that overlap. *)
THEOREM NoSecondDelivery == OutboxSpec => []DeliveredOncePerDispatcher
<1>1. OutboxInv => DeliveredOncePerDispatcher
  BY DEF OutboxInv, DispInv
<1> QED
  BY OutboxInductive, <1>1, PTL
=============================================================================
