---------------------------- MODULE MCValidation ----------------------------
(***************************************************************************)
(* What the validation of definitions lets through, over small payloads,   *)
(* and the definitions the instances run, all of which it accepts.         *)
(***************************************************************************)
EXTENDS WorkflowValidation, MCWorkflows

(* A definition as the editor sends it.                                    *)
Payload(wf) ==
    LET ids == SetToSortSeq(DOMAIN wf, LAMBDA m, n : wf[m].order < wf[n].order)
    IN  [i \in DOMAIN ids |->
            [PlainStep(ids[i]) EXCEPT
                !.type = IF wf[ids[i]].kind = "gate" THEN "gate" ELSE "platform",
                !.gate = IF wf[ids[i]].kind = "gate" THEN "approval" ELSE Null,
                !.keys = (IF wf[ids[i]].routed THEN {"on_success_step_ids"} ELSE {})
                         \cup (IF wf[ids[i]].error # << >>
                               THEN {"on_error_step_ids"} ELSE {}),
                !.success = wf[ids[i]].success,
                !.error = wf[ids[i]].error,
                !.join = wf[ids[i]].join]]

(* The definitions of MCWorkflows are ones the portal stores.              *)
ASSUME InstancesAreAccepted ==
    \A wf \in {MCGate, MCDiamond, MCFork, MCTwoEntries, MCGatePair, MCMerge,
               MCFan, MCTwoGates, MCCycle} :
        Accepts(Payload(wf), Null)

(* The depth-first search finds a loop exactly when some steps all lead to *)
(* one of themselves.                                                      *)
ASSUME SearchFindsLoops ==
    \A graph \in [1..4 -> SUBSET (1..4)] :
        HasLoop(graph) <=>
            \E loop \in (SUBSET (1..4)) \ {{}} :
                \A n \in loop : graph[n] \cap loop # {}

(* The breadth-first search visits the least set that holds the targets    *)
(* and what follows a visited step, join points excluded.                  *)
ASSUME SearchCoversBranches ==
    \A graph \in [1..3 -> SUBSET (1..3)], joins, start \in SUBSET (1..3) :
        LET Closed(s) == (start \cup UNION {graph[n] : n \in s}) \ joins \subseteq s
            visited   == Spread(graph, joins, {}, start)
        IN  /\ Closed(visited)
            /\ \A s \in SUBSET (1..3) : Closed(s) => visited \subseteq s

-----------------------------------------------------------------------------
Ordered(s) == SetToSortSeq(s, <)

Small == [order : {0}, routed : {TRUE}, success : {Ordered(s) : s \in SUBSET (1..3)},
          error : {<< >>, <<1>>, <<2>>, <<3>>}, kind : {"task"},
          conditional : {FALSE}, join : {"all_success"}]

Definitions ==
    {[n \in 1..3 |-> [wf[n] EXCEPT !.order = n]] : wf \in [1..3 -> Small]}

RECURSIVE Reach(_, _)

Reach(wf, s) ==
    LET more == s \cup UNION {Targets(wf, n) : n \in s}
    IN  IF more = s THEN s ELSE Reach(wf, more)

(* A definition with explicit routing at every step that is accepted never *)
(* comes back to a step: no run of it is longer than its list of steps.    *)
(* Its entries are the steps nothing leads to and reach all the others,    *)
(* unless every list is empty: then only the first step ever runs.         *)
ASSUME AcceptedRuns ==
    \A wf \in {d \in Definitions : Accepts(Payload(d), Null)} :
        /\ \A n \in 1..3 : n \notin Reach(wf, Targets(wf, n))
        /\ IF \A n \in 1..3 : Targets(wf, n) = {} THEN EntrySteps(wf) = {1}
           ELSE /\ EntrySteps(wf) =
                      {n \in 1..3 : \A m \in 1..3 : n \notin Targets(wf, m)}
                /\ Reach(wf, EntrySteps(wf)) = 1..3

(* "Ensures no infinite loops exist" (catalog/validation.py:231) is not    *)
(* so: the edges of the linear order, which a step without routing takes   *)
(* when it succeeds, are not searched.  d leads to e, which leads to a, b  *)
(* and d again.                                                            *)
ASSUME LoopIsAccepted ==
    /\ NextStepIds(MCCycle, "d", "COMPLETED") = <<"e">>
    /\ "d" \in Reach(MCCycle, {"e"})
    /\ Accepts(Payload(MCCycle), Null)

(* A gate that two edges lead to counts as a join, even when both leave    *)
(* one step of a branch; and two entries run in parallel without a         *)
(* fan-out.  Either way a gate waits beside a running branch.              *)
MCGateInBranch == [n \in {"a", "b", "c", "g"} |->
    CASE n = "a" -> Routed(1, <<"b", "c">>, << >>)
      [] n = "b" -> Routed(2, <<"g">>, <<"g">>)
      [] n = "c" -> Routed(3, << >>, << >>)
      [] n = "g" -> Gate(Routed(4, << >>, << >>))]

ASSUME ParallelGateIsAccepted ==
    /\ Accepts(Payload(MCGateInBranch), Null)
    /\ {"a", "g"} \subseteq EntrySteps(MCTwoGates)
    /\ Accepts(Payload(MCTwoGates), Null)
    /\ ~Accepts(Payload([MCGateInBranch EXCEPT !["b"].error = << >>]), Null)
=============================================================================
