---------------------------- MODULE MCWorkflows ----------------------------
(***************************************************************************)
(* Workflow definitions for the instances.  MCDiamond, MCTwoEntries and    *)
(* MCTwoGates are shapes on which races that the README describes come     *)
(* out: they are validated (MCValidation), and no run is on them.          *)
(***************************************************************************)
EXTENDS Naturals, Sequences

(* A step of the linear kind, without routing.                             *)
Linear(order) ==
    [order |-> order, routed |-> FALSE, success |-> << >>, error |-> << >>,
     kind |-> "task", conditional |-> FALSE, join |-> "all_success"]

(* A step with explicit targets.                                           *)
Routed(order, success, error) ==
    [Linear(order) EXCEPT !.routed = TRUE, !.success = success, !.error = error]

Gate(step) == [step EXCEPT !.kind = "gate"]

Conditional(step) == [step EXCEPT !.conditional = TRUE]

(* a, with d on error, then the gate g, then b if approved, d if refused.  *)
MCGate == [n \in {"a", "g", "b", "d"} |->
    CASE n = "a" -> Routed(1, <<"g">>, <<"d">>)
      [] n = "g" -> Gate(Routed(2, <<"b">>, <<"d">>))
      [] n = "b" -> Routed(3, << >>, << >>)
      [] n = "d" -> Routed(4, << >>, << >>)]

(* a fans out to b and c, which join in d.                                 *)
MCDiamond == [n \in {"a", "b", "c", "d"} |->
    CASE n = "a" -> Routed(1, <<"b", "c">>, << >>)
      [] n = "b" -> Routed(2, <<"d">>, << >>)
      [] n = "c" -> Routed(3, <<"d">>, << >>)
      [] n = "d" -> Routed(4, << >>, << >>)]

(* Two branches, b then d and c then e, that both go on for a step.        *)
MCFork == [n \in {"a", "b", "c", "d", "e"} |->
    CASE n = "a" -> Routed(1, <<"b", "c">>, << >>)
      [] n = "b" -> Routed(2, <<"d">>, << >>)
      [] n = "c" -> Routed(3, <<"e">>, << >>)
      [] n = "d" -> Routed(4, << >>, << >>)
      [] n = "e" -> Routed(5, << >>, << >>)]

(* Two entries; the first leads to a third step.                           *)
MCTwoEntries == [n \in {"a", "b", "c"} |->
    CASE n = "a" -> Routed(1, <<"c">>, << >>)
      [] n = "b" -> Routed(2, << >>, << >>)
      [] n = "c" -> Routed(3, << >>, << >>)]

(* A gate, then another.                                                   *)
MCGatePair == [n \in {"g", "h"} |->
    CASE n = "g" -> Gate(Routed(1, <<"h">>, << >>))
      [] n = "h" -> Gate(Routed(2, << >>, << >>))]

(* Two entries, one of them conditional, that both lead to c, with a       *)
(* branch of its own for the conditional one.                              *)
MCMerge == [n \in {"a", "b", "c", "d"} |->
    CASE n = "a" -> Routed(1, <<"c">>, << >>)
      [] n = "b" -> Conditional(Routed(2, <<"c", "d">>, << >>))
      [] n = "c" -> Routed(3, << >>, << >>)
      [] n = "d" -> Routed(4, << >>, << >>)]

(* a fans out to b and c.                                                  *)
MCFan == [n \in {"a", "b", "c"} |->
    CASE n = "a" -> Routed(1, <<"b", "c">>, << >>)
      [] n = "b" -> Routed(2, << >>, << >>)
      [] n = "c" -> Routed(3, << >>, << >>)]

(* Two entries, a gate and a task, that meet in a second gate.             *)
MCTwoGates == [n \in {"a", "g", "h"} |->
    CASE n = "a" -> Routed(1, <<"h">>, << >>)
      [] n = "g" -> Gate(Routed(2, <<"h">>, << >>))
      [] n = "h" -> Gate(Routed(3, << >>, << >>))]

(* e leads to a, which fans out to b and c.  They join in d when both      *)
(* succeed and in f, then the gate g, when one of them fails.  d has no    *)
(* routing of its own: it goes on to e by the linear order, a cycle the    *)
(* validation of definitions cannot see.  An error of e leads to b, so     *)
(* cycles of two lengths meet the limit.                                   *)
MCCycle == [n \in {"a", "b", "c", "d", "e", "f", "g"} |->
    CASE n = "a" -> Routed(1, <<"b", "c">>, << >>)
      [] n = "b" -> Conditional(Routed(2, <<"d">>, <<"f">>))
      [] n = "c" -> Routed(3, <<"d">>, <<"f">>)
      [] n = "d" -> Linear(4)
      [] n = "e" -> Routed(5, <<"a">>, <<"b">>)
      [] n = "f" -> [Routed(6, <<"g">>, << >>) EXCEPT !.join = "one_failed"]
      [] n = "g" -> Gate(Routed(7, << >>, << >>))]
=============================================================================
