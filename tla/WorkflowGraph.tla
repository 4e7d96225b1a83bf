--------------------------- MODULE WorkflowGraph ----------------------------
(***************************************************************************)
(* Traversal of a workflow definition: executions/domain/workflow_graph.py *)
(* and the entry points computed by utils/workflow_parsing.py.             *)
(*                                                                         *)
(* A definition wf maps each step_id to its configuration record.  order   *)
(* is the position used by workflows that carry no routing, routed says    *)
(* whether the key on_success_step_ids is present, success and error are   *)
(* the two target lists, kind tells gates from the handlers that run to    *)
(* completion, and conditional marks a step with a condition to evaluate.  *)
(***************************************************************************)
EXTENDS Naturals, Sequences, FiniteSets, SequencesExt

JoinPolicies == {"all_success", "one_success", "all_done", "all_failed",
                 "one_failed"}

IsWorkflow(wf) ==
    /\ \A n \in DOMAIN wf :
          /\ wf[n].order \in Nat
          /\ wf[n].routed \in BOOLEAN
          /\ wf[n].success \in Seq(DOMAIN wf)
          /\ ~wf[n].routed => wf[n].success = << >>
          /\ wf[n].error \in Seq(DOMAIN wf)
          /\ wf[n].join \in JoinPolicies
          /\ wf[n].kind \in {"task", "gate"}
          /\ wf[n].conditional \in BOOLEAN
          /\ IsInjective(wf[n].success) /\ IsInjective(wf[n].error)
    /\ \A m, n \in DOMAIN wf : wf[m].order = wf[n].order => m = n

Targets(wf, n) == ToSet(wf[n].success) \cup ToSet(wf[n].error)

(* The step of the least order among the later ones, as a list.            *)
LinearNext(wf, n) ==
    LET later == {m \in DOMAIN wf : wf[m].order > wf[n].order}
    IN  IF later = {} THEN << >>
        ELSE << CHOOSE m \in later :
                    \A k \in later : wf[m].order <= wf[k].order >>

(* Fault: the outcome of the step is not looked at.                        *)
NextOnSuccess(wf, n, outcome) ==
    IF wf[n].routed THEN wf[n].success ELSE LinearNext(wf, n)

(* Routing is by the presence of the key, not by the list being non-empty: *)
(* an explicit empty list is an exit point.                                *)
NextStepIds(wf, n, outcome) ==
    IF outcome # "COMPLETED" THEN wf[n].error
    ELSE IF wf[n].routed THEN wf[n].success ELSE LinearNext(wf, n)

(* Steps no edge points to; a workflow without any edge is linear and only *)
(* its first step is an entry.  No entry at all (a cycle) falls back to    *)
(* the step of least order.                                                *)
EntrySteps(wf) ==
    LET targets == UNION {Targets(wf, n) : n \in DOMAIN wf}
        free    == DOMAIN wf \ targets
        first   == {n \in DOMAIN wf :
                       \A m \in DOMAIN wf : wf[n].order <= wf[m].order}
    IN  IF targets = {} \/ free = {} THEN first ELSE free

(* Fault: one predecessor that succeeded is enough under any policy.       *)
JoinAdmitsAny(policy, outcomes) == "COMPLETED" \in outcomes

(* Does the join policy of a target with several predecessors in the wave  *)
(* admit it, given the outcomes of those predecessors?                     *)
JoinAdmits(policy, outcomes) ==
    CASE policy = "one_success" -> "COMPLETED" \in outcomes
      [] policy = "all_done"    -> TRUE
      [] policy = "all_failed"  -> outcomes \subseteq {"FAILED"}
      [] policy = "one_failed"  -> "FAILED" \in outcomes
      [] OTHER                  -> outcomes \subseteq {"COMPLETED"}

(* The next wave: the targets the wave's steps chose, kept when they have   *)
(* at most one predecessor in the wave or when their policy admits the     *)
(* outcomes.  Predecessors are counted on every edge of the wave's steps,  *)
(* taken or not.  wave is a set of steps and results maps each of them to  *)
(* its [status, next]; the code deduplicates its lists, and their order    *)
(* only decides which step_order a step gets.                              *)
ApplyJoinPolicy(wf, wave, results) ==
    LET preds(t) == {n \in wave : t \in Targets(wf, n)}
    IN  {t \in UNION {ToSet(results[n].next) : n \in wave} :
            \/ Cardinality(preds(t)) <= 1
            \/ JoinAdmits(wf[t].join, {results[n].status : n \in preds(t)})}
=============================================================================
