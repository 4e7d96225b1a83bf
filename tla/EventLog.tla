------------------------------ MODULE EventLog ------------------------------
(***************************************************************************)
(* The durable events of one execution (services/workflow_events.py): the  *)
(* transactions that allocate a sequence number and append an event, and a *)
(* client of the WebSocket (consumers.py), which is told a sequence number *)
(* and a snapshot when it connects and asks for what came later.           *)
(*                                                                         *)
(*   made      the changes of status that are committed                    *)
(*   row, counter   WORKFLOW_EVENT_COUNTER: is there a row, its number     *)
(*   holder    the transaction that has the row locked, or inserted it     *)
(*             and did not commit yet                                      *)
(*   log       WORKFLOW_EVENTS, what is committed                          *)
(*   draft[t]  the events transaction t wrote and has not committed        *)
(*   em[t]     where t is in emit(), and the change it announces           *)
(*   writer    the transaction that has the row of the execution locked    *)
(*   client    since: the sequence number it was told; view: the changes   *)
(*             it was shown                                                *)
(*                                                                         *)
(* A transaction reads what is committed (READ COMMITTED) and a row lock   *)
(* is kept until it ends.  A change is written with its event in one       *)
(* transaction (StatusChanges), or before it, in one of its own            *)
(* (StepChanges).                                                          *)
(***************************************************************************)
EXTENDS Naturals, FiniteSets

CONSTANTS StatusChanges, StepChanges, Dispatchers, PageSize, NoTx

ASSUME EventAssumption ==
    /\ PageSize \in Nat \ {0}
    /\ StatusChanges \cap StepChanges = {}
    /\ (StatusChanges \cup StepChanges) \cap Dispatchers = {}
    /\ NoTx \notin StatusChanges \cup StepChanges \cup Dispatchers

VARIABLES made, row, counter, holder, log, draft, em, writer, client

logVars    == <<row, counter, holder, log, draft, em>>

Emitters == StatusChanges \cup StepChanges
Txs      == Emitters \cup Dispatchers

Quiet == [pc |-> "idle", of |-> NoTx]
Away  == [pc |-> "away", since |-> 0, view |-> {}]

(* Some changes of steps are past and their events purged; there may be    *)
(* nobody who watches.                                                     *)
LogInit ==
    /\ made \in SUBSET StepChanges
    /\ row = FALSE /\ counter = 0 /\ holder = NoTx
    /\ log = {}
    /\ draft = [t \in Txs |-> {}]
    /\ em = [t \in Txs |-> Quiet]
    /\ writer = NoTx
    /\ client \in {Away, [Away EXCEPT !.pc = "absent"]}
-----------------------------------------------------------------------------
(* _next_sequence_num and the insert of _emit_inner.                       *)
Append(t) ==
    /\ draft' = [draft EXCEPT ![t] = @ \cup
           {[seq |-> counter + Cardinality(draft[t]) + 1, of |-> em[t].of, by |-> t]}]
    /\ em' = [em EXCEPT ![t].pc = "appended"]

(* Fault: the counter is read without its lock.                            *)
GetCounterUnlocked(t) ==
    /\ em[t].pc = "emit"
    /\ row
    /\ Append(t)
    /\ UNCHANGED <<row, counter, holder, log>>

(* SELECT FOR UPDATE waits for whoever has the committed row locked.       *)
GetCounter(t) ==
    /\ em[t].pc = "emit"
    /\ row \/ holder = t
    /\ holder \in {NoTx, t}
    /\ holder' = t
    /\ Append(t)
    /\ UNCHANGED <<row, counter, log>>

(* There is no row, or none that is committed.                             *)
NoCounter(t) ==
    /\ em[t].pc = "emit"
    /\ ~row /\ holder # t
    /\ em' = [em EXCEPT ![t].pc = "create"]
    /\ UNCHANGED <<row, counter, holder, log, draft>>

CreateCounter(t) ==
    /\ em[t].pc = "create"
    /\ ~row /\ holder = NoTx
    /\ holder' = t
    /\ Append(t)
    /\ UNCHANGED <<row, counter, log>>

(* The insert waited for another one, which was committed: IntegrityError. *)
(* Django has marked the atomic block for a rollback, so the second        *)
(* select_for_update raises as well.                                       *)
CreateCollides(t) ==
    /\ em[t].pc = "create"
    /\ row /\ holder = NoTx
    /\ em' = [em EXCEPT ![t].pc = "raised"]
    /\ UNCHANGED <<row, counter, holder, log, draft>>

Emit(t) ==
    /\ \/ GetCounter(t) \/ NoCounter(t) \/ CreateCounter(t)
       \/ CreateCollides(t)
    /\ UNCHANGED <<made, writer, client>>

Publish(t) ==
    /\ log' = log \cup draft[t]
    /\ counter' = counter + Cardinality(draft[t])
    /\ row' = (row \/ holder = t)
    /\ holder' = IF holder = t THEN NoTx ELSE holder
    /\ draft' = [draft EXCEPT ![t] = {}]
    /\ em' = [em EXCEPT ![t] = Quiet]

Discard(t) ==
    /\ holder' = IF holder = t THEN NoTx ELSE holder
    /\ draft' = [draft EXCEPT ![t] = {}]
    /\ em' = [em EXCEPT ![t] = Quiet]
    /\ UNCHANGED <<row, counter, log>>
-----------------------------------------------------------------------------
(* ExecutionService.update_execution_status: the row of the execution is   *)
(* locked, the change is written and its event emitted; whatever raises    *)
(* undoes both, and the caller may try again.                              *)
StatusChange(c) ==
    /\ c \notin made /\ em[c] = Quiet
    /\ writer = NoTx
    /\ writer' = c
    /\ em' = [em EXCEPT ![c] = [pc |-> "emit", of |-> c]]
    /\ UNCHANGED <<made, row, counter, holder, log, draft, client>>

StatusCommits(c) ==
    /\ writer = c /\ em[c].pc = "appended"
    /\ Publish(c)
    /\ made' = made \cup {c}
    /\ writer' = NoTx
    /\ UNCHANGED client

StatusUndone(c) ==
    /\ writer = c /\ em[c].pc = "raised"
    /\ Discard(c)
    /\ writer' = NoTx
    /\ UNCHANGED <<made, client>>

(* A step that waits (_handle_gate_waiting_result) and a gate that is      *)
(* decided (_cleanup_step_resources): the change is committed first and a  *)
(* failure of the event is logged only.                                    *)
StepChange(c) ==
    /\ c \notin made
    /\ made' = made \cup {c}
    /\ em' = [em EXCEPT ![c] = [pc |-> "emit", of |-> c]]
    /\ UNCHANGED <<row, counter, holder, log, draft, writer, client>>

StepTold(c) ==
    /\ \/ em[c].pc = "appended" /\ Publish(c)
       \/ em[c].pc = "raised" /\ Discard(c)
    /\ UNCHANGED <<made, writer, client>>
-----------------------------------------------------------------------------
(* The consumer: get_latest_sequence, then the snapshot, two queries.      *)
Connect ==
    /\ client.pc = "away"
    /\ client' = [pc |-> "synced", since |-> counter, view |-> {}]
    /\ UNCHANGED <<made, logVars, writer>>

Snapshot ==
    /\ client.pc = "synced"
    /\ client' = [client EXCEPT !.pc = "on", !.view = made]
    /\ UNCHANGED <<made, logVars, writer>>

(* Fault: the page is not ordered.                                         *)
CatchUpUnordered ==
    LET later == {ev \in log : ev.seq > client.since}
    IN  /\ client.pc = "on"
        /\ \E page \in SUBSET later : \E last \in page :
             /\ Cardinality(page) <= PageSize
             /\ \A ev \in page : ev.seq <= last.seq
             /\ client' = [client EXCEPT !.since = last.seq,
                                        !.view = @ \cup {ev.of : ev \in page}]
        /\ UNCHANGED <<made, logVars, writer>>

(* get_events_since: a page of the events after client.since.              *)
CatchUp ==
    LET later == {ev \in log : ev.seq > client.since}
        page  == {ev \in later :
                     Cardinality({e \in later : e.seq <= ev.seq}) <= PageSize}
    IN  /\ client.pc = "on"
        /\ \E last \in page :
             /\ \A ev \in page : ev.seq <= last.seq
             /\ client' = [client EXCEPT !.since = last.seq,
                                        !.view = @ \cup {ev.of : ev \in page}]
        /\ UNCHANGED <<made, logVars, writer>>

Disconnect ==
    /\ client.pc \in {"synced", "on"}
    /\ client' = Away
    /\ UNCHANGED <<made, logVars, writer>>

LogNext ==
    \/ \E t \in Emitters : Emit(t)
    \/ \E c \in StatusChanges : StatusChange(c) \/ StatusCommits(c) \/ StatusUndone(c)
    \/ \E c \in StepChanges : StepChange(c) \/ StepTold(c)
    \/ Connect \/ Snapshot \/ CatchUp \/ Disconnect
-----------------------------------------------------------------------------
(* The numbers of the committed events are 1, 2, ... without a gap or a    *)
(* double, and the counter is the last of them: what a client is told to   *)
(* be the latest number leaves no event behind that appears later.         *)
Gapless ==
    /\ {ev.seq : ev \in log} = 1 .. counter
    /\ \A e1, e2 \in log : e1.seq = e2.seq => e1 = e2

(* A client that was told the number n has been shown every change whose   *)
(* event has a number up to n, by its snapshot or by an event, however the *)
(* transactions and its own queries interleave.                            *)
NoUpdateSkipped ==
    client.pc = "on" =>
        \A ev \in log : ev.seq <= client.since => ev.of \in client.view
=============================================================================
