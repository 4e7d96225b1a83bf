------------------------------ MODULE Finalizer ------------------------------
(***************************************************************************)
(* _finalize_execution_if_done (app/orchestrator.py): what a worker or a   *)
(* command processor does when it has nothing to enqueue.  Its queries run *)
(* in one transaction, but under READ COMMITTED each of them sees what the *)
(* others committed just before, and only the last one is a compare and    *)
(* swap.  fin[a] is how far actor a has come and the outcome it works out. *)
(***************************************************************************)
EXTENDS ExecutionStore

CONSTANTS Workers, Procs        \* the tasks that may finalize

ASSUME FinalizerAssumption == IsFiniteSet(Workers)

VARIABLE fin

Actors == Workers \cup Procs

Off == [pc |-> "off", out |-> "none"]

Outcomes == {"COMPLETED", "FAILED", "CANCELLED", "RUNNING"}

FinTypeOK ==
    fin \in [Actors -> [pc : {"off", "active", "waiting", "failed",
                               "refresh", "cas"},
                        out : Outcomes \cup {"none"}]]

FinInit == fin = [a \in Actors |-> Off]

(* Actor a starts to finalize, told the outcome of the step it processed.  *)
StartFinalize(a, outcome) ==
    fin' = [fin EXCEPT ![a] = [pc |-> "active", out |-> outcome]]

(* Any PENDING or RUNNING step?                                            *)
FinActive(a) ==
    /\ fin[a].pc = "active"
    /\ fin' = IF AnyStep({"PENDING", "RUNNING"}) THEN [fin EXCEPT ![a] = Off]
              ELSE [fin EXCEPT ![a].pc = "waiting"]
    /\ UNCHANGED <<storeVars, queueVars>>

(* Any WAITING gate?                                                       *)
FinWaiting(a) ==
    /\ fin[a].pc = "waiting"
    /\ fin' = IF AnyStep({"WAITING"}) THEN [fin EXCEPT ![a] = Off]
              ELSE [fin EXCEPT ![a].pc = "failed"]
    /\ UNCHANGED <<storeVars, queueVars>>

(* Any FAILED step?  A cancelled outcome overrides the answer.             *)
FinFailed(a) ==
    LET final == IF fin[a].out = "CANCELLED" THEN "CANCELLED"
                 ELSE IF AnyStep({"FAILED"}) THEN "FAILED" ELSE "COMPLETED"
    IN  /\ fin[a].pc = "failed"
        /\ fin' = [fin EXCEPT ![a] = [pc |-> "refresh", out |-> final]]
        /\ UNCHANGED <<storeVars, queueVars>>

(* The status is refreshed: a terminal one ends it, an illegal transition  *)
(* raises.                                                                 *)
FinRefresh(a) ==
    /\ fin[a].pc = "refresh"
    /\ fin' = IF LegalExec(exec, fin[a].out) THEN [fin EXCEPT ![a].pc = "cas"]
              ELSE [fin EXCEPT ![a] = Off]
    /\ UNCHANGED <<storeVars, queueVars>>

(* Fault: the update trusts the refreshed status.                          *)
FinCasBlind(a) ==
    /\ fin[a].pc = "cas"
    /\ exec' = fin[a].out
    /\ fin' = [fin EXCEPT ![a] = Off]
    /\ UNCHANGED <<steps, queueVars>>

(* The update, which excludes three of the terminal statuses.              *)
FinCas(a) ==
    /\ fin[a].pc = "cas"
    /\ exec' = IF exec \in {"COMPLETED", "FAILED", "CANCELLED"} THEN exec
               ELSE fin[a].out
    /\ fin' = [fin EXCEPT ![a] = Off]
    /\ UNCHANGED <<steps, queueVars>>

Finalize(a) ==
    FinActive(a) \/ FinWaiting(a) \/ FinFailed(a) \/ FinRefresh(a) \/ FinCas(a)
=============================================================================
