------------------------------ MODULE MCOutbox ------------------------------
(* Bounds for the outbox and the event log: two entries, so that a batch   *)
(* holds two and a dispatcher may find one of them taken; one change of    *)
(* each kind beside them.                                                  *)
EXTENDS Outbox

MCEntries == {1, 2}

(* A client watches an execution with one gate and a step beside it, or    *)
(* nobody watches one with two gates.                                      *)
Watched ==
    /\ client.pc = "away" /\ made = {}
    /\ entry[1].status = "none" /\ entry[2].status = "void"

TwoGates ==
    /\ client.pc = "absent" /\ made = StepChanges
    /\ \A e \in Entries : entry[e].status = "none"

MCInit == OutboxInit /\ (Watched \/ TwoGates)

MCOutboxSpec == MCInit /\ [][OutboxNext]_vars /\ OutboxFairness
=============================================================================
