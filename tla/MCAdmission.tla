---------------------------- MODULE MCAdmission -----------------------------
(***************************************************************************)
(* Two actions, one of them a workflow, one host and two submissions.      *)
(***************************************************************************)
EXTENDS Admission, TLC

CONSTANTS a, b

Rule(p, q, s) == [action |-> p, other |-> q, same |-> s]

(* A pair of rules as an administrator creates it, and one rule as an      *)
(* import leaves it.                                                       *)
Paired == {Rule(a, b, TRUE), Rule(b, a, TRUE)}
Imported == {Rule(b, a, FALSE)}

MCRules == {{}, Paired, Imported}

(* Over before: cancelled ahead of its launch, or failed.                  *)
Gone(e) ==
    IF e \in Beats
    THEN [Submitted(a, {}, Nobody) EXCEPT !.status = "CANCELLED"]
    ELSE [Submitted(b, {}, Nobody) EXCEPT !.status = "FAILED", !.started = TRUE]

(* Two submissions meet an execution of the scheduler or an administrator, *)
(* or one of them runs with a child and the other was refused before; the  *)
(* others have come and gone.                                              *)
MCInit ==
    /\ \E off \in {Beats, Children, Beats \cup Children}, sole \in Requests :
          /\ exec = [e \in Executions |-> IF e \in off THEN Gone(e) ELSE Absent]
          /\ admin \in [Admins ->
                [pc : IF Beats \cup Children \subseteq off THEN {"idle"} ELSE {"done"},
                 rule : {Rule(a, b, TRUE)}]]
          /\ rules \in
                CASE off = Beats    -> {Imported}
                  [] off = Children -> {Paired}
                  [] OTHER          -> {{}, Paired}
          /\ req = [r \in Requests |->
                [pc |-> IF off = Beats /\ r # sole THEN "done" ELSE "new",
                 action |-> Nobody, targets |-> {}, todo |-> {}, law |-> {},
                 earlier |-> {}]]
    /\ cascade = {}

MCSpec == MCInit /\ [][Next]_vars

Alike == Permutations(Requests)
=============================================================================
