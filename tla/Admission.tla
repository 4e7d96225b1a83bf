----------------------------- MODULE Admission ------------------------------
(***************************************************************************)
(* Which executions may be active together: the ACTION_MUTEX rules, the    *)
(* requests of administrators that change them (catalog/views/             *)
(* action_views.py and the import of services_export_import.py), and the   *)
(* submissions that are checked against them (utils/mutex_validation.py)   *)
(* before the execution is created, in another transaction, and launched.  *)
(*                                                                         *)
(*   exec[e]     row of an execution; Requests come through the endpoint,  *)
(*               Beats from the scheduler and Children from a step of a    *)
(*               workflow, and only the first are checked                  *)
(*   rules       ACTION_MUTEX, unique by its two actions                   *)
(*   req[r]      a submission: how far it is, the rules still to look at   *)
(*   Parents     the executions that requests name as their parents        *)
(*   admin[d]    a request that changes rules                              *)
(*   cascade     cancelled executions whose children are still to cancel   *)
(*                                                                         *)
(* req[r].law and req[r].earlier are ghosts: the rules the submission read *)
(* and the executions that existed when it read them.                      *)
(***************************************************************************)
EXTENDS FiniteSets

CONSTANTS Actions, Workflows, Hosts, Requests, Beats, Children, Admins,
          InitialRules, Parents, Nobody

Roots == Requests \cup Beats
Executions == Roots \cup Children

Rules == [action : Actions, other : Actions, same : BOOLEAN]

OnePerPair(rs) ==
    \A p, q \in rs : p.action = q.action /\ p.other = q.other => p = q

ASSUME AdmissionAssumption ==
    /\ Workflows \subseteq Actions
    /\ Requests \cap Beats = {} /\ Roots \cap Children = {}
    /\ Parents \subseteq Executions /\ Nobody \notin Executions \cup Actions
    /\ \A rs \in InitialRules : rs \subseteq Rules /\ OnePerPair(rs)

VARIABLES exec, rules, req, admin, cascade

vars == <<exec, rules, req, admin, cascade>>

Statuses == {"SUBMITTED", "RUNNING", "COMPLETED", "FAILED", "CANCELLED",
             "INTEGRATION_ERROR"}

ActiveStatuses == {"SUBMITTED", "RUNNING"}

Absent == [status |-> "none", action |-> Nobody, targets |-> {},
           parent |-> Nobody, started |-> FALSE]

Submitted(a, hosts, p) ==
    [status |-> "SUBMITTED", action |-> a, targets |-> hosts,
     parent |-> p, started |-> FALSE]

Exists(e) == exec[e].status # "none"
Active(e) == exec[e].status \in ActiveStatuses

Rows ==
    [status : Statuses \cup {"none"}, action : Actions \cup {Nobody},
     targets : SUBSET Hosts, parent : Executions \cup {Nobody}, started : BOOLEAN]

Submissions ==
    [pc : {"new", "check", "launch", "launched", "done"},
     action : Actions \cup {Nobody}, targets : SUBSET Hosts,
     todo : SUBSET Rules, law : SUBSET Rules, earlier : SUBSET Executions]

TypeOK ==
    /\ exec \in [Executions -> Rows]
    /\ rules \subseteq Rules
    /\ req \in [Requests -> Submissions]
    /\ admin \in [Admins ->
          [pc : {"idle", "insert", "mirror", "done"}, rule : Rules]]
    /\ cascade \subseteq Executions

Init ==
    /\ exec = [e \in Executions |-> Absent]
    /\ rules \in InitialRules
    /\ req = [r \in Requests |->
          [pc |-> "new", action |-> Nobody, targets |-> {}, todo |-> {},
           law |-> {}, earlier |-> {}]]
    /\ admin \in [Admins -> [pc : {"idle"}, rule : Rules]]
    /\ cascade = {}
-----------------------------------------------------------------------------
(* Submission.  The rules of the action, on either side, are read once: a  *)
(* first query asks whether there are any, and what counts is the one that *)
(* finds none or the one that lists them after it.                         *)
Involving(a) == {p \in rules : p.action = a \/ p.other = a}

ReadRules(r) ==
    \E a \in Actions, hosts \in SUBSET Hosts :
        /\ req[r].pc = "new"
        /\ req' = [req EXCEPT ![r] =
              [pc |-> "check", action |-> a, targets |-> hosts,
               todo |-> Involving(a), law |-> Involving(a),
               earlier |-> {e \in Executions : Exists(e)}]]
        /\ UNCHANGED <<exec, rules, admin, cascade>>

(* Fault: a rule is read from its own side only.                           *)
RivalListed(p, a) == p.other

Rival(p, a) == IF p.action = a THEN p.other ELSE p.action

(* A rule on the same target needs recorded targets on both sides, unless  *)
(* the submission names none: then it blocks whatever the others target.   *)
Blocks(p, a, hosts, e) ==
    /\ Active(e)
    /\ exec[e].action = Rival(p, a)
    /\ p.same /\ hosts # {} => exec[e].targets \cap hosts # {}

(* One query per rule; the first that finds an execution refuses.          *)
CheckRule(r) ==
    /\ req[r].pc = "check"
    /\ \E p \in req[r].todo :
          req' = [req EXCEPT
              ![r].todo = @ \ {p},
              ![r].pc = IF \E e \in Executions :
                              Blocks(p, req[r].action, req[r].targets, e)
                        THEN "done" ELSE "check"]
    /\ UNCHANGED <<exec, rules, admin, cascade>>

(* create_execution(), in a transaction of its own.  The request may name  *)
(* an execution as its parent, the one it is to remedy.                    *)
Create(r) ==
    /\ req[r].pc = "check"
    /\ req[r].todo = {}
    /\ \E p \in {Nobody} \cup {e \in Parents : Exists(e)} :
          exec' = [exec EXCEPT ![r] = Submitted(req[r].action, req[r].targets, p)]
    /\ req' = [req EXCEPT ![r].pc = "launch"]
    /\ UNCHANGED <<rules, admin, cascade>>

Running(e) == [exec EXCEPT ![e].status = "RUNNING", ![e].started = TRUE]

(* Fault: the status is written without a look at what it was.             *)
LaunchAnyway(r) ==
    /\ req[r].pc = "launch"
    /\ exec' = IF exec[r].action \in Workflows THEN Running(r) ELSE exec
    /\ req' = [req EXCEPT ![r].pc =
                  IF exec[r].action \in Workflows THEN "launched" ELSE "done"]
    /\ UNCHANGED <<rules, admin, cascade>>

(* run() of a workflow starts from SUBMITTED only; an action that is no    *)
(* workflow has no runtime and stays as it is.                             *)
Launch(r) ==
    /\ req[r].pc = "launch"
    /\ exec' = IF exec[r].action \in Workflows /\ exec[r].status = "SUBMITTED"
               THEN Running(r) ELSE exec
    /\ req' = [req EXCEPT ![r].pc =
                  IF exec[r].action \in Workflows THEN "launched" ELSE "done"]
    /\ UNCHANGED <<rules, admin, cascade>>

Return(r) ==
    /\ req[r].pc = "launched"
    /\ req' = [req EXCEPT ![r].pc = "done"]
    /\ UNCHANGED <<exec, rules, admin, cascade>>

(* run() raised, before its compare and swap or after: INTEGRATION_ERROR   *)
(* through the transition table, or over whatever status it has by then.   *)
LaunchFails(r) ==
    /\ req[r].pc \in {"launch", "launched"}
    /\ exec[r].action \in Workflows
    /\ exec' = [exec EXCEPT ![r].status = "INTEGRATION_ERROR"]
    /\ req' = [req EXCEPT ![r].pc = "done"]
    /\ UNCHANGED <<rules, admin, cascade>>

(* Another validation refuses, or the process dies.                        *)
Abandon(r) ==
    /\ req[r].pc \in {"check", "launch"}
    /\ req' = [req EXCEPT ![r].pc = "done"]
    /\ UNCHANGED <<exec, rules, admin, cascade>>

Submission(r) ==
    \/ ReadRules(r) \/ CheckRule(r) \/ Create(r) \/ Launch(r) \/ Return(r)
    \/ LaunchFails(r) \/ Abandon(r)
-----------------------------------------------------------------------------
(* Executions nobody checks: they have no recorded targets either.         *)
BeatCreates(b) ==
    \E a \in Actions :
        /\ ~Exists(b)
        /\ exec' = [exec EXCEPT ![b] = Submitted(a, {}, Nobody)]
        /\ UNCHANGED <<rules, req, admin, cascade>>

BeatLaunches(b) ==
    /\ exec[b].status = "SUBMITTED"
    /\ exec[b].action \in Workflows
    /\ exec' = Running(b)
    /\ UNCHANGED <<rules, req, admin, cascade>>

StepCreates(c) ==
    \E p \in Roots, a \in Actions :
        /\ ~Exists(c)
        /\ exec[p].started
        /\ exec' = [exec EXCEPT ![c] = Submitted(a, {}, p)]
        /\ UNCHANGED <<rules, req, admin, cascade>>

(* The step runs its child: run_sync() starts a workflow from SUBMITTED    *)
(* only, a platform job is started whatever became of the child.           *)
StepLaunches(c) ==
    /\ Exists(c)
    /\ ~exec[c].started
    /\ exec[c].action \in Workflows => exec[c].status = "SUBMITTED"
    /\ exec' = Running(c)
    /\ UNCHANGED <<rules, req, admin, cascade>>

(* There is nothing to run it with, or its run raises: FAILED, whatever    *)
(* the child is by then.                                                   *)
StepFails(c) ==
    /\ Exists(c)
    /\ exec[c].started => exec[c].action \in Workflows
    /\ exec' = [exec EXCEPT ![c].status = "FAILED", ![c].started = TRUE]
    /\ UNCHANGED <<rules, req, admin, cascade>>

(* The end the engine gives to a running execution.                        *)
Finish(e) ==
    /\ exec[e].status = "RUNNING"
    /\ \E s \in {"COMPLETED", "FAILED"} : exec' = [exec EXCEPT ![e].status = s]
    /\ UNCHANGED <<rules, req, admin, cascade>>

(* The cancel endpoint: a compare and swap, then the children.             *)
Cancel(e) ==
    /\ Active(e)
    /\ exec' = [exec EXCEPT ![e].status = "CANCELLED"]
    /\ cascade' = cascade \cup {e}
    /\ UNCHANGED <<rules, req, admin>>

CancelChildren(e) ==
    /\ e \in cascade
    /\ exec' = [c \in Executions |->
          IF exec[c].parent = e /\ Active(c)
          THEN [exec[c] EXCEPT !.status = "CANCELLED"] ELSE exec[c]]
    /\ cascade' = cascade \ {e}
    /\ UNCHANGED <<rules, req, admin>>

Execution ==
    \/ \E b \in Beats : BeatCreates(b) \/ BeatLaunches(b)
    \/ \E c \in Children : StepCreates(c) \/ StepLaunches(c) \/ StepFails(c)
    \/ \E e \in Executions : Finish(e) \/ Cancel(e) \/ CancelChildren(e)
-----------------------------------------------------------------------------
Between(rs, a, b) == {p \in rs : p.action = a /\ p.other = b}

Mirror(p) == [action |-> p.other, other |-> p.action, same |-> p.same]

(* Serializer: an action is not set against itself, and no rule binds the  *)
(* two yet.                                                                *)
ValidateRule(d) ==
    LET p == admin[d].rule
    IN  /\ admin[d].pc = "idle"
        /\ p.action # p.other
        /\ Between(rules, p.action, p.other) \cup Between(rules, p.other, p.action) = {}
        /\ admin' = [admin EXCEPT ![d].pc = "insert"]
        /\ UNCHANGED <<exec, rules, req, cascade>>

(* One transaction: the rule, refused if it exists by now, and its mirror  *)
(* if there is none.                                                       *)
InsertRule(d) ==
    LET p == admin[d].rule
    IN  /\ admin[d].pc = "insert"
        /\ rules' = IF Between(rules, p.action, p.other) # {} THEN rules
                    ELSE rules \cup {p}
                         \cup (IF Between(rules, p.other, p.action) = {}
                               THEN {Mirror(p)} ELSE {})
        /\ admin' = [admin EXCEPT ![d].pc = "done"]
        /\ UNCHANGED <<exec, req, cascade>>

(* Two statements that commit one by one.                                  *)
DeleteRule(d) ==
    /\ admin[d].pc = "idle"
    /\ admin[d].rule \in rules
    /\ rules' = rules \ {admin[d].rule}
    /\ admin' = [admin EXCEPT ![d].pc = "mirror"]
    /\ UNCHANGED <<exec, req, cascade>>

DeleteMirror(d) ==
    /\ admin[d].pc = "mirror"
    /\ rules' = rules \ Between(rules, admin[d].rule.other, admin[d].rule.action)
    /\ admin' = [admin EXCEPT ![d].pc = "done"]
    /\ UNCHANGED <<exec, req, cascade>>

(* An import of an action sets its rules, in its own direction only; a     *)
(* full one also removes the rules of the action that it does not list.    *)
ImportRules(d) ==
    \E new \in SUBSET {p \in Rules : p.action = admin[d].rule.action}, full \in BOOLEAN :
        /\ admin[d].pc = "idle"
        /\ OnePerPair(new)
        /\ rules' = new \cup {p \in rules :
              \/ p.action # admin[d].rule.action
              \/ ~full /\ \A q \in new : p.other # q.other}
        /\ admin' = [admin EXCEPT ![d].pc = "done"]
        /\ UNCHANGED <<exec, req, cascade>>

Administration(d) ==
    \/ ValidateRule(d) \/ InsertRule(d) \/ DeleteRule(d) \/ DeleteMirror(d)
    \/ ImportRules(d)

Next ==
    \/ \E r \in Requests : Submission(r)
    \/ Execution
    \/ \E d \in Admins : Administration(d)

Spec == Init /\ [][Next]_vars
-----------------------------------------------------------------------------
(* What a rule says, read from both sides.                                 *)
Incompatible(p, f, e) ==
    /\ {p.action, p.other} = {exec[f].action, exec[e].action}
    /\ p.same =>
          \/ exec[f].targets = {}
          \/ exec[f].targets \cap exec[e].targets # {}

(* Two incompatible executions are active together only when their         *)
(* submissions overlapped: one that existed when the rules of the other    *)
(* were read, and that no step of a workflow created, is over by the time  *)
(* the other one exists, for good.                                         *)
RivalsOverlapped ==
    \A f \in Requests, e \in Roots :
        Active(f) /\ Active(e) /\ e \in req[f].earlier =>
            \A p \in req[f].law : ~Incompatible(p, f, e)

(* An execution that is over does not become active again, whatever        *)
(* launch, cancellation or failure was still under way; a child of a       *)
(* workflow can.                                                           *)
EndedStaysEnded ==
    [][\A e \in Roots : (Exists(e) /\ ~Active(e)) => ~Active(e)']_vars
=============================================================================
