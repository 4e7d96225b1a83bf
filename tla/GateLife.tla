------------------------------ MODULE GateLife ------------------------------
(***************************************************************************)
(* What the evaluation of gates promises, whoever evaluates and however    *)
(* often (tasks/gates.py): a gate that waits is decided at most once, and  *)
(* the workflow is taken on from it at most once, after the decision.      *)
(*                                                                         *)
(*   waiting    the gates that wait                                        *)
(*   verdict    the decision on each gate, "none" before there is one      *)
(*   told       how often the workflow was taken on from it                *)
(***************************************************************************)
EXTENDS Naturals

CONSTANT Gates

VARIABLES waiting, verdict, told

lifeVars == <<waiting, verdict, told>>

Verdicts == {"satisfied", "SKIPPED", "FAILED"}

LifeInit ==
    /\ waiting = {}
    /\ verdict = [g \in Gates |-> "none"]
    /\ told = [g \in Gates |-> 0]

Open(g) ==
    /\ g \notin waiting /\ verdict[g] = "none"
    /\ waiting' = waiting \cup {g}
    /\ UNCHANGED <<verdict, told>>

Decide(g, v) ==
    /\ g \in waiting /\ verdict[g] = "none"
    /\ waiting' = waiting \ {g}
    /\ verdict' = [verdict EXCEPT ![g] = v]
    /\ UNCHANGED told

(* The execution is cancelled, or the step is failed by another task.      *)
Withdraw(gone) ==
    /\ gone # {} /\ gone \subseteq waiting
    /\ waiting' = waiting \ gone
    /\ UNCHANGED <<verdict, told>>

TakeOn(g) ==
    /\ verdict[g] # "none" /\ told[g] = 0
    /\ told' = [told EXCEPT ![g] = 1]
    /\ UNCHANGED <<waiting, verdict>>

LifeNext ==
    \/ \E g \in Gates :
          Open(g) \/ TakeOn(g) \/ \E v \in Verdicts : Decide(g, v)
    \/ \E gone \in SUBSET Gates : Withdraw(gone)

LifeSpec == LifeInit /\ [][LifeNext]_lifeVars
=============================================================================
