------------------------ MODULE WorkflowValidation -------------------------
(***************************************************************************)
(* What a workflow definition must satisfy before it is stored:            *)
(* validate_workflow_steps() of catalog/validation.py.                     *)
(*                                                                         *)
(* A payload is a sequence of steps as the editor or an import sends them. *)
(* keys are the optional keys that are present, success and error the      *)
(* target lists (an absent or a null list is empty), ref the action of a   *)
(* platform step, and Null stands for any value that is absent or null.    *)
(* The order of the tests only chooses the message of the refusal.         *)
(***************************************************************************)
EXTENDS WorkflowGraph

CONSTANT Null

RoutingKeys == {"on_success_step_ids", "on_error_step_ids"}
RetryKeys == {"retry_max_attempts", "retry_interval_seconds",
              "retry_backoff_multiplier"}

GateTypes == {"approval", "maintenance_window"}

PlainStep(id) ==
    [id |-> id, type |-> "platform", ref |-> "action", keys |-> {},
     success |-> << >>, error |-> << >>, join |-> Null, gate |-> Null,
     retry |-> FALSE, attempts |-> Null, interval |-> Null]

UsesBranchesOrRetry(steps) ==
    \E i \in DOMAIN steps : steps[i].keys # {} \/ steps[i].retry

Ids(steps) == {steps[i].id : i \in DOMAIN steps} \ {Null}

StepTargets(s) == ToSet(s.success) \cup ToSet(s.error)

(* The defaults the validation writes into the steps it returns.           *)
WithDefaults(steps) ==
    [i \in DOMAIN steps |->
        IF ~steps[i].retry THEN steps[i]
        ELSE [steps[i] EXCEPT
                !.attempts = IF @ = Null THEN 3 ELSE @,
                !.interval = IF @ = Null THEN 60 ELSE @,
                !.keys     = @ \cup RetryKeys]]

(* A platform step names an action, not the workflow itself; an import     *)
(* passes no own action.                                                   *)
ReferencesAction(s, own) ==
    s.type = "platform" =>
        /\ s.ref # Null
        /\ own # Null => s.ref # own

IdsAreUnique(steps) ==
    \A i, j \in DOMAIN steps :
        steps[i].id = steps[j].id /\ steps[i].id # Null => i = j

(* An explicit empty list is an exit.                                      *)
IsExit(s) ==
    \/ "on_success_step_ids" \in s.keys /\ s.success = << >>
    \/ "on_error_step_ids" \in s.keys /\ s.error = << >>

StepIsValid(s) ==
    /\ s.join \in JoinPolicies \cup {Null}
    /\ s.type = "gate" => s.gate \in GateTypes
    /\ s.retry => s.attempts >= 1 /\ s.interval >= 1
-----------------------------------------------------------------------------
(* Cycle detection: a depth-first search over the explicit targets.  path  *)
(* is the set of steps on the stack, seen every step met so far; the walk  *)
(* ends at the first target that is on the path.                           *)
RECURSIVE Visit(_, _, _, _)

Visit(graph, n, path, seen) ==
    LET Look(m, walk) ==
            CASE walk.cycle          -> walk
              [] m \in path          -> [walk EXCEPT !.cycle = TRUE]
              [] m \in walk.seen     -> walk
              [] OTHER               -> Visit(graph, m, path \cup {m},
                                              walk.seen \cup {m})
    IN  FoldSet(Look, [cycle |-> FALSE, seen |-> seen], graph[n])

HasLoop(graph) ==
    LET Start(n, walk) ==
            IF walk.cycle \/ n \in walk.seen THEN walk
            ELSE Visit(graph, n, {n}, walk.seen \cup {n})
    IN  FoldSet(Start, [cycle |-> FALSE, seen |-> {}], DOMAIN graph).cycle

Edges(steps) ==
    [n \in Ids(steps) |->
        UNION {StepTargets(steps[i]) : i \in {j \in DOMAIN steps : steps[j].id = n}}]
-----------------------------------------------------------------------------
(* Gates in parallel branches: a breadth-first search from the targets of  *)
(* a fan-out that does not enter a join point, a step more than one edge   *)
(* leads to.                                                               *)
RECURSIVE Spread(_, _, _, _)

Spread(graph, joins, visited, queue) ==
    LET new == (queue \ joins) \ visited
    IN  IF new = {} THEN visited
        ELSE Spread(graph, joins, visited \cup new, UNION {graph[n] : n \in new})

Lists(steps) == {<<i, k>> : i \in DOMAIN steps, k \in {"success", "error"}}

(* A step listed twice in one list counts twice.                           *)
InDegree(steps, n) ==
    Cardinality(UNION {{<<l, p>> : p \in {q \in DOMAIN steps[l[1]][l[2]] :
                                            steps[l[1]][l[2]][q] = n}} :
                       l \in Lists(steps)})

JoinPoints(steps) == {n \in Ids(steps) : InDegree(steps, n) >= 2}

FanOuts(steps) ==
    {ToSet(steps[l[1]][l[2]]) :
        l \in {m \in Lists(steps) : Len(steps[m[1]][m[2]]) >= 2}}

ParallelSteps(steps) ==
    UNION {Spread(Edges(steps), JoinPoints(steps), {}, ids) : ids \in FanOuts(steps)}

GateIds(steps) ==
    {steps[i].id : i \in {j \in DOMAIN steps : steps[j].type = "gate"}}
-----------------------------------------------------------------------------
(* validate_workflow_steps(); own is the workflow's own action.            *)
Accepts(payload, own) ==
    LET steps == WithDefaults(payload)
    IN  /\ \A i \in DOMAIN steps :
               ReferencesAction(steps[i], own) /\ StepIsValid(steps[i])
        /\ IdsAreUnique(steps)
        /\ UsesBranchesOrRetry(payload) =>
               /\ \A i \in DOMAIN steps :
                      /\ steps[i].id # Null
                      /\ StepTargets(steps[i]) \subseteq Ids(steps)
               /\ \E i \in DOMAIN steps : IsExit(steps[i])
               /\ ~HasLoop(Edges(steps))
               /\ GateIds(steps) \cap ParallelSteps(steps) = {}
=============================================================================
