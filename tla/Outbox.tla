------------------------------- MODULE Outbox -------------------------------
(***************************************************************************)
(* The transactional outbox (infra/outbox.py) and its dispatchers          *)
(* (tasks/outbox_dispatcher.py), one started every ten seconds.  An entry  *)
(* is written with the decision on a gate; its dispatch announces the      *)
(* decision in the event log and removes the row of the gate from the work *)
(* queue.                                                                  *)
(*                                                                         *)
(*   entry[e]  the row: status and attempt_no; "void" for a gate that this *)
(*             execution does not have                                     *)
(*   rowOf     the entries whose gate has a row in the work queue          *)
(*   disp[d]   pc; todo: the ids it listed, then the entries it locked and *)
(*             has not handled; at: the entry it is at; new: what it wrote *)
(*             to the rows it handled, not committed                       *)
(*   misfiled  the entries that a failed save marked DISPATCHED            *)
(*   mishaps   dispatchers that died, and failed saves (at most MaxMishaps) *)
(***************************************************************************)
EXTENDS EventLog

CONSTANTS Entries, MaxAttempts, MaxMishaps

ASSUME OutboxAssumption ==
    /\ Entries \subseteq Nat \ {0}
    /\ MaxAttempts \in Nat \ {0}
    /\ MaxMishaps \in Nat
    /\ Entries \cap (Txs \cup {NoTx}) = {}

VARIABLES entry, rowOf, disp, misfiled, mishaps

outboxVars == <<entry, rowOf, disp, misfiled, mishaps>>
vars == <<made, logVars, writer, client, outboxVars>>

Unwritten == [status |-> "none", attempts |-> 0]
Nothing == [e \in {} |-> Unwritten]
Idle == [pc |-> "idle", todo |-> {}, at |-> 0, new |-> Nothing]

Handled(d) == DOMAIN disp[d].new
Locked(d) ==
    IF disp[d].pc \in {"idle", "listed"} THEN {}
    ELSE disp[d].todo \cup Handled(d)
             \cup (IF disp[d].at = 0 THEN {} ELSE {disp[d].at})

OutboxInit ==
    /\ LogInit
    /\ entry \in [Entries -> {Unwritten, [Unwritten EXCEPT !.status = "void"]}]
    /\ rowOf = {}
    /\ disp = [d \in Dispatchers |-> Idle]
    /\ misfiled = {}
    /\ mishaps = 0
-----------------------------------------------------------------------------
(* _handle_approve, _handle_reject: the step is decided and the entry is   *)
(* written in the transaction of the command; a second one finds the key.  *)
WriteEntry(e) ==
    /\ entry[e].status = "none"
    /\ entry' = [entry EXCEPT ![e].status = "PENDING"]
    /\ made' = made \cup {e}
    /\ rowOf' = rowOf \cup {e}
    /\ UNCHANGED <<logVars, writer, client, disp, misfiled, mishaps>>

(* Fault: the listing does not look at the status.                         *)
DispListAll(d) ==
    LET listed == {e \in Entries : /\ entry[e].status \notin {"void", "none"}
                                   /\ entry[e].attempts < MaxAttempts}
    IN  /\ disp[d].pc = "idle" /\ listed # {}
        /\ disp' = [disp EXCEPT ![d] = [Idle EXCEPT !.pc = "listed", !.todo = listed]]
        /\ UNCHANGED <<made, logVars, writer, client, entry, rowOf, misfiled, mishaps>>

(* The candidates are read without a lock.                                 *)
DispList(d) ==
    LET listed == {e \in Entries : /\ entry[e].status = "PENDING"
                                   /\ entry[e].attempts < MaxAttempts}
    IN  /\ disp[d].pc = "idle" /\ listed # {}
        /\ disp' = [disp EXCEPT ![d] = [Idle EXCEPT !.pc = "listed", !.todo = listed]]
        /\ UNCHANGED <<made, logVars, writer, client, entry, rowOf, misfiled, mishaps>>

(* Any of the entries left is next, in a savepoint of its own: the query   *)
(* that locks them asks for no order.                                      *)
GoesOn(d, left, new) ==
    \/ /\ left = {}
       /\ disp' = [disp EXCEPT ![d] = [pc |-> "work", todo |-> {}, at |-> 0, new |-> new]]
       /\ em' = [em EXCEPT ![d] = Quiet]
    \/ \E e \in left :
         /\ disp' = [disp EXCEPT ![d] = [pc |-> "work", todo |-> left \ {e},
                                        at |-> e, new |-> new]]
         /\ em' = [em EXCEPT ![d] = [pc |-> "emit", of |-> e]]

(* SELECT FOR UPDATE SKIP LOCKED by id: what they are by now is not looked *)
(* at.                                                                     *)
DispLock(d) ==
    LET free == {e \in disp[d].todo : \A o \in Dispatchers \ {d} : e \notin Locked(o)}
    IN  /\ disp[d].pc = "listed"
        /\ \/ free = {} /\ disp' = [disp EXCEPT ![d] = Idle] /\ UNCHANGED em
           \/ free # {} /\ GoesOn(d, free, Nothing)
        /\ UNCHANGED <<made, row, counter, holder, log, draft, writer, client,
                       entry, rowOf, misfiled, mishaps>>

Written(d, w) ==
    [e \in Handled(d) \cup {disp[d].at} |-> IF e = disp[d].at THEN w ELSE disp[d].new[e]]

(* The entry was dispatched.                                               *)
DispDone(d) ==
    LET e == disp[d].at
    IN  /\ e # 0 /\ em[d].pc = "appended"
        /\ GoesOn(d, disp[d].todo, Written(d, [entry[e] EXCEPT !.status = "DISPATCHED"]))
        /\ UNCHANGED <<made, row, counter, holder, log, draft, writer, client,
                       entry, rowOf, misfiled, mishaps>>

(* The savepoint takes the event of this entry back, and the lock on the   *)
(* counter if it was taken since.                                          *)
Rollback(d) ==
    LET kept == {ev \in draft[d] : ev.of # disp[d].at}
    IN  /\ draft' = [draft EXCEPT ![d] = kept]
        /\ holder' = IF holder = d /\ kept = {} THEN NoTx ELSE holder

Failed(w) ==
    [status   |-> IF w.attempts + 1 >= MaxAttempts THEN "FAILED" ELSE w.status,
     attempts |-> w.attempts + 1]

(* Fault: a failure is not counted and the entry stays pending.            *)
DispFailsForever(d) ==
    LET e == disp[d].at
    IN  /\ e # 0 /\ em[d].pc \in {"raised", "appended"}
        /\ Rollback(d)
        /\ GoesOn(d, disp[d].todo, Written(d, entry[e]))
        /\ UNCHANGED <<made, row, counter, log, writer, client, entry, rowOf,
                       misfiled, mishaps>>

(* Fault: the copy is marked before the dispatch that fails.               *)
DispFailsMarked(d) ==
    LET e == disp[d].at
    IN  /\ e # 0 /\ em[d].pc \in {"raised", "appended"}
        /\ Rollback(d)
        /\ GoesOn(d, disp[d].todo,
                  Written(d, Failed([entry[e] EXCEPT !.status = "DISPATCHED"])))
        /\ UNCHANGED <<made, row, counter, log, writer, client, entry, rowOf,
                       misfiled, mishaps>>

(* Something raised: the event, or what comes with it.                     *)
DispFails(d) ==
    LET e == disp[d].at
    IN  /\ e # 0 /\ em[d].pc \in {"raised", "appended"}
        /\ Rollback(d)
        /\ GoesOn(d, disp[d].todo, Written(d, Failed(entry[e])))
        /\ UNCHANGED <<made, row, counter, log, writer, client, entry, rowOf,
                       misfiled, mishaps>>

(* The save of the dispatched entry raised: the copy in memory says        *)
(* DISPATCHED by then, and that is what the handler saves.                 *)
DispSaveFails(d) ==
    LET e == disp[d].at
    IN  /\ mishaps < MaxMishaps
        /\ e # 0 /\ em[d].pc = "appended"
        /\ mishaps' = mishaps + 1
        /\ misfiled' = misfiled \cup {e}
        /\ Rollback(d)
        /\ GoesOn(d, disp[d].todo,
                  Written(d, Failed([entry[e] EXCEPT !.status = "DISPATCHED"])))
        /\ UNCHANGED <<made, row, counter, log, writer, client, entry, rowOf>>

Delivered(d) == {e \in Handled(d) : \E ev \in draft[d] : ev.of = e}

(* The transaction of the batch ends.                                      *)
DispCommit(d) ==
    /\ disp[d].pc = "work" /\ disp[d].at = 0 /\ disp[d].todo = {}
    /\ entry' = [e \in Entries |-> IF e \in Handled(d) THEN disp[d].new[e] ELSE entry[e]]
    /\ rowOf' = rowOf \ Delivered(d)
    /\ disp' = [disp EXCEPT ![d] = Idle]
    /\ Publish(d)
    /\ UNCHANGED <<made, writer, client, misfiled, mishaps>>

(* The process dies, or the handler's own save raises: the batch is undone. *)
DispDies(d) ==
    /\ mishaps < MaxMishaps
    /\ disp[d].pc = "work"
    /\ mishaps' = mishaps + 1
    /\ disp' = [disp EXCEPT ![d] = Idle]
    /\ Discard(d)
    /\ UNCHANGED <<made, writer, client, entry, rowOf, misfiled>>

Dispatch(d) ==
    \/ DispList(d) \/ DispLock(d)
    \/ Emit(d) /\ UNCHANGED outboxVars
    \/ DispDone(d) \/ DispFails(d) \/ DispSaveFails(d) \/ DispCommit(d)

OutboxNext ==
    \/ LogNext /\ UNCHANGED outboxVars
    \/ \E e \in Entries : WriteEntry(e)
    \/ \E d \in Dispatchers : Dispatch(d) \/ DispDies(d)

OutboxSpec == OutboxInit /\ [][OutboxNext]_vars

(* The beat starts dispatchers for ever and the database serves those who  *)
(* wait for a lock.                                                        *)
OutboxFairness ==
    /\ \A d \in Dispatchers : WF_vars(Dispatch(d))
    /\ \A t \in Emitters : WF_vars(Emit(t) /\ UNCHANGED outboxVars)
    /\ \A c \in StatusChanges :
         WF_vars((StatusCommits(c) \/ StatusUndone(c)) /\ UNCHANGED outboxVars)
    /\ \A c \in StepChanges : WF_vars(StepTold(c) /\ UNCHANGED outboxVars)

FairOutbox == OutboxSpec /\ OutboxFairness
-----------------------------------------------------------------------------
(* An entry that is marked DISPATCHED was delivered: its event is          *)
(* committed and the row of its gate is gone, whatever failed, died or was *)
(* rolled back on the way; one failure apart, that of the save which marks *)
(* it.                                                                     *)
DispatchedIsDelivered ==
    \A e \in Entries : entry[e].status = "DISPATCHED" /\ e \notin misfiled =>
        /\ \E ev \in log : ev.of = e
        /\ e \notin rowOf

(* Locking by id delivers an entry a second time when a dispatcher had     *)
(* listed it before another one committed it; no dispatcher does so twice, *)
(* so the deliveries stay within the dispatchers that overlap.             *)
DeliveredOncePerDispatcher ==
    \A e1, e2 \in log :
        e1.of \in Entries /\ e1.of = e2.of /\ e1.by = e2.by => e1 = e2

(* Every entry is dispatched or given up.                                  *)
EntrySettles ==
    \A e \in Entries :
        entry[e].status = "PENDING" ~> entry[e].status \in {"DISPATCHED", "FAILED"}
=============================================================================
