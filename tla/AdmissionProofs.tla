-------------------------- MODULE AdmissionProofs ---------------------------
(***************************************************************************)
(* The two promises of Admission for every number of submissions,          *)
(* executions, actions, hosts and administrators: executions that are      *)
(* incompatible are active together only when their submissions            *)
(* overlapped, and an execution that is over stays over.                   *)
(***************************************************************************)
EXTENDS Admission, TLAPS

LEMMA RowParts ==
    ASSUME NEW x \in Rows
    PROVE  /\ x.status \in Statuses \cup {"none"}
           /\ x.action \in Actions \cup {Nobody}
           /\ x.targets \in SUBSET Hosts
           /\ x.parent \in Executions \cup {Nobody}
           /\ x.started \in BOOLEAN
BY DEF Rows

(* A row whose status changes is a row, and keeps what it was created with.*)
LEMMA StatusChanges ==
    ASSUME NEW x \in Rows, NEW s \in Statuses
    PROVE  LET y == [x EXCEPT !.status = s]
               z == [x EXCEPT !.status = s, !.started = TRUE]
           IN  /\ y \in Rows /\ y.status = s
               /\ y.action = x.action /\ y.targets = x.targets
               /\ z \in Rows /\ z.status = s
               /\ z.action = x.action /\ z.targets = x.targets
BY DEF Rows

LEMMA NewRows ==
    ASSUME NEW a \in Actions \cup {Nobody}, NEW hosts \in SUBSET Hosts,
           NEW p \in Executions \cup {Nobody}
    PROVE  /\ Submitted(a, hosts, p) \in Rows
           /\ Submitted(a, hosts, p).status = "SUBMITTED"
           /\ Submitted(a, hosts, p).action = a
           /\ Submitted(a, hosts, p).targets = hosts
BY DEF Submitted, Rows, Statuses

LEMMA SubmissionParts ==
    ASSUME NEW q \in Submissions
    PROVE  /\ q.action \in Actions \cup {Nobody}
           /\ q.targets \in SUBSET Hosts
           /\ q.todo \in SUBSET Rules /\ q.law \in SUBSET Rules
           /\ q.earlier \in SUBSET Executions
BY DEF Submissions

LEMMA Advances ==
    ASSUME NEW q \in Submissions,
           NEW s \in {"new", "check", "launch", "launched", "done"},
           NEW todo \in SUBSET Rules
    PROVE  LET y == [q EXCEPT !.pc = s]
               z == [q EXCEPT !.todo = todo, !.pc = s]
           IN  /\ y \in Submissions /\ y.pc = s /\ y.todo = q.todo
               /\ y.action = q.action /\ y.targets = q.targets
               /\ y.law = q.law /\ y.earlier = q.earlier
               /\ z \in Submissions /\ z.pc = s /\ z.todo = todo
               /\ z.action = q.action /\ z.targets = q.targets
               /\ z.law = q.law /\ z.earlier = q.earlier
BY DEF Submissions
-----------------------------------------------------------------------------
(* What becomes of a row in one step: it is created with no status before, *)
(* or it keeps its action and its targets, and once over it is not active, *)
(* except for a child.                                                     *)
KeepsRow(e) ==
    /\ Exists(e)
    /\ exec'[e].status \in Statuses
    /\ exec'[e].action = exec[e].action
    /\ exec'[e].targets = exec[e].targets
    /\ e \in Children \/ Active(e) \/ exec'[e].status \notin ActiveStatuses

Untouched(e) == exec'[e] = exec[e]

(* How far a submission is, against its row.                               *)
Paced ==
    \A r \in Requests :
        /\ req[r].pc \in {"new", "check"} => ~Exists(r)
        /\ req[r].pc \in {"launch", "launched"} => Exists(r)
        /\ req[r].pc = "check" => req[r].action \in Actions

(* The row of a submission records what was checked, all of it.            *)
Recorded ==
    \A r \in Requests : Exists(r) =>
        /\ exec[r].action = req[r].action
        /\ exec[r].targets = req[r].targets
        /\ req[r].todo = {}

EarlierExist ==
    \A r \in Requests : \A e \in req[r].earlier : Exists(e)

(* A rule against action a with the targets hosts and the execution e.     *)
Clash(p, a, hosts, e) ==
    /\ {p.action, p.other} = {a, exec[e].action}
    /\ p.same => hosts = {} \/ hosts \cap exec[e].targets # {}

(* The rules looked at so far are met by the executions that existed: the  *)
(* part of RivalsOverlapped that holds while the submission is checked.    *)
Cleared ==
    \A r \in Requests, e \in Roots :
        req[r].pc = "check" \/ Exists(r) =>
            (e \in req[r].earlier /\ Active(e) =>
                \A p \in req[r].law \ req[r].todo :
                    ~Clash(p, req[r].action, req[r].targets, e))

AdmissionInv == TypeOK /\ Paced /\ Recorded /\ EarlierExist /\ Cleared
-----------------------------------------------------------------------------
LEMMA InitHolds == Init => AdmissionInv
<1> SUFFICES ASSUME Init PROVE AdmissionInv
  OBVIOUS
<1> USE AdmissionAssumption
<1>1. Absent \in Rows
  BY DEF Absent, Rows, Statuses
<1>2. TypeOK
  <2>1. exec \in [Executions -> Rows]
    BY <1>1 DEF Init
  <2>2. rules \subseteq Rules
    BY DEF Init
  <2>3. req \in [Requests -> Submissions]
    BY DEF Init, Submissions
  <2>4. admin \in [Admins -> [pc : {"idle", "insert", "mirror", "done"},
  rule : Rules]]
    BY DEF Init
  <2> QED
    BY <2>1, <2>2, <2>3, <2>4 DEF TypeOK, Init
<1>3. \A e \in Executions : ~Exists(e)
  BY DEF Init, Exists, Absent
<1>4. \A r \in Requests : req[r].pc = "new" /\ req[r].earlier = {}
  BY DEF Init
<1>5. Requests \subseteq Executions
  BY DEF Executions, Roots
<1> QED
  BY <1>2, <1>3, <1>4, <1>5
     DEF AdmissionInv, Paced, Recorded, EarlierExist, Cleared
-----------------------------------------------------------------------------
(* What a step does to the rows that exist, and to those of submissions    *)
(* that are not created yet.                                               *)
Onward ==
    /\ exec' \in [Executions -> Rows]
    /\ \A e \in Executions : Exists(e) => Untouched(e) \/ KeepsRow(e)

Waiting == \A r \in Requests : ~Exists(r) => Untouched(r)

LEMMA NoChange ==
    ASSUME TypeOK, UNCHANGED exec
    PROVE  Onward /\ Waiting
BY DEF TypeOK, Onward, Waiting, Untouched

(* One row is replaced.                                                    *)
LEMMA RowChange ==
    ASSUME TypeOK, NEW f \in Executions, NEW x \in Rows,
           exec' = [exec EXCEPT ![f] = x],
           Exists(f) =>
              /\ x.status \in Statuses
              /\ x.action = exec[f].action /\ x.targets = exec[f].targets
              /\ f \in Children \/ Active(f) \/ x.status \notin ActiveStatuses
    PROVE  Onward /\ (f \notin Requests \/ Exists(f) => Waiting)
<1>1. exec' \in [Executions -> Rows] /\ exec'[f] = x
  BY DEF TypeOK
<1>2. \A e \in Executions : e # f => Untouched(e)
  BY DEF TypeOK, Untouched
<1>3. Exists(f) => KeepsRow(f)
  BY <1>1 DEF KeepsRow
<1>4. Requests \subseteq Executions
  BY DEF Executions, Roots
<1> QED
  BY <1>1, <1>2, <1>3, <1>4 DEF Onward, Waiting

(* The status of one row is replaced, and the row is started or not.       *)
LEMMA StatusChange ==
    ASSUME TypeOK, NEW f \in Executions, NEW s \in Statuses,
           \/ exec' = [exec EXCEPT ![f].status = s]
           \/ exec' = [exec EXCEPT ![f].status = s, ![f].started = TRUE],
           Exists(f), f \in Children \/ Active(f) \/ s \notin ActiveStatuses
    PROVE  Onward /\ Waiting
<1>1. exec[f] \in Rows
  BY DEF TypeOK
<1>2. PICK y \in Rows : /\ exec' = [exec EXCEPT ![f] = y]
                        /\ y.status = s
                        /\ y.action = exec[f].action
                        /\ y.targets = exec[f].targets
  <2>1. CASE exec' = [exec EXCEPT ![f].status = s]
    <3>1. exec' = [exec EXCEPT ![f] = [exec[f] EXCEPT !.status = s]]
      BY <2>1 DEF TypeOK
    <3> QED
      BY <1>1, <3>1, StatusChanges
  <2>2. CASE exec' = [exec EXCEPT ![f].status = s, ![f].started = TRUE]
    <3>1. exec' = [exec EXCEPT ![f] = [exec[f] EXCEPT !.status = s, !.started = TRUE]]
      BY <2>2, <1>1 DEF TypeOK, Rows
    <3> QED
      BY <1>1, <3>1, StatusChanges
  <2> QED
    BY <2>1, <2>2
<1> QED
  BY <1>2, RowChange

LEMMA SubmissionGoesOn ==
    ASSUME AdmissionInv, NEW r \in Requests, Submission(r)
    PROVE  Onward /\ (~Create(r) => Waiting)
<1> USE DEF AdmissionInv
<1>0. r \in Executions 
  BY DEF Executions, Roots
<1>1. CASE ReadRules(r) \/ CheckRule(r) \/ Return(r) \/ Abandon(r)
  <2>1. UNCHANGED exec
    BY <1>1 DEF ReadRules, CheckRule, Return, Abandon
  <2> QED
    BY <2>1, NoChange
<1>2. CASE Create(r)
  <2>1. PICK p \in Executions \cup {Nobody} :
           exec' = [exec EXCEPT ![r] = Submitted(req[r].action, req[r].targets, p)]
    BY <1>2, AdmissionAssumption DEF Create
  <2>2. ~Exists(r)
    BY <1>2 DEF Create, Paced
  <2>3. req[r].action \in Actions \cup {Nobody} /\ req[r].targets \in SUBSET Hosts
    BY SubmissionParts DEF TypeOK
  <2>4. Submitted(req[r].action, req[r].targets, p) \in Rows
    BY <2>3, NewRows
  <2> QED
    BY <1>0, <1>2, <2>1, <2>2, <2>4, RowChange
<1>3. CASE Launch(r)
  <2>1. CASE UNCHANGED exec
    BY <2>1, NoChange
  <2>2. CASE exec[r].status = "SUBMITTED" /\ exec' = Running(r)
    <3>1. Exists(r) /\ Active(r) /\ "RUNNING" \in Statuses
      BY <2>2 DEF Exists, Active, ActiveStatuses, Statuses
    <3>2. exec' = [exec EXCEPT ![r].status = "RUNNING", ![r].started = TRUE]
      BY <2>2 DEF Running
    <3> QED
      BY <1>0, <3>1, <3>2, StatusChange
  <2> QED
    BY <1>3, <2>1, <2>2 DEF Launch
<1>4. CASE LaunchFails(r)
  <2>1. Exists(r)
    BY <1>4 DEF LaunchFails, Paced
  <2>2. "INTEGRATION_ERROR" \in Statuses \ ActiveStatuses
    BY DEF Statuses, ActiveStatuses
  <2>3. exec' = [exec EXCEPT ![r].status = "INTEGRATION_ERROR"]
    BY <1>4 DEF LaunchFails
  <2> QED
    BY <1>0, <2>1, <2>2, <2>3, StatusChange
<1> QED
  BY <1>1, <1>2, <1>3, <1>4 DEF Submission

LEMMA ExecutionGoesOn ==
    ASSUME AdmissionInv, Execution
    PROVE  Onward /\ Waiting
<1> USE AdmissionAssumption DEF AdmissionInv
<1>0. /\ Beats \subseteq Executions /\ Children \subseteq Executions
      /\ Beats \cap Requests = {} /\ Children \cap Requests = {}
  BY DEF Executions, Roots
<1>1. ASSUME NEW b \in Beats, BeatCreates(b) PROVE Onward /\ Waiting
  <2>1. PICK a \in Actions : exec' = [exec EXCEPT ![b] = Submitted(a, {}, Nobody)]
    BY <1>1 DEF BeatCreates
  <2>2. Submitted(a, {}, Nobody) \in Rows
    BY NewRows
  <2> QED
    BY <1>0, <1>1, <2>1, <2>2, RowChange DEF BeatCreates
<1>2. ASSUME NEW b \in Beats, BeatLaunches(b) PROVE Onward /\ Waiting
  <2>1. Exists(b) /\ Active(b) /\ "RUNNING" \in Statuses
    BY <1>2 DEF BeatLaunches, Exists, Active, ActiveStatuses, Statuses
  <2>2. exec' = [exec EXCEPT ![b].status = "RUNNING", ![b].started = TRUE]
    BY <1>2 DEF BeatLaunches, Running
  <2> QED
    BY <1>0, <2>1, <2>2, StatusChange
<1>3. ASSUME NEW c \in Children, StepCreates(c) PROVE Onward /\ Waiting
  <2>1. PICK p \in Executions, a \in Actions :
           exec' = [exec EXCEPT ![c] = Submitted(a, {}, p)]
    BY <1>3 DEF StepCreates, Executions
  <2>2. Submitted(a, {}, p) \in Rows
    BY NewRows
  <2> QED
    BY <1>0, <1>3, <2>1, <2>2, RowChange DEF StepCreates
<1>4. ASSUME NEW c \in Children, StepLaunches(c) PROVE Onward /\ Waiting
  <2>1. exec' = [exec EXCEPT ![c].status = "RUNNING", ![c].started = TRUE]
    BY <1>4 DEF StepLaunches, Running
  <2>2. Exists(c) /\ "RUNNING" \in Statuses
    BY <1>4 DEF StepLaunches, Statuses
  <2> QED
    BY <1>0, <2>1, <2>2, StatusChange
<1>5. ASSUME NEW c \in Children, StepFails(c) PROVE Onward /\ Waiting
  <2>1. exec' = [exec EXCEPT ![c].status = "FAILED", ![c].started = TRUE]
    BY <1>5 DEF StepFails
  <2>2. Exists(c) /\ "FAILED" \in Statuses
    BY <1>5 DEF StepFails, Statuses
  <2> QED
    BY <1>0, <2>1, <2>2, StatusChange
<1>6. ASSUME NEW e \in Executions, Finish(e) PROVE Onward /\ Waiting
  <2>1. PICK s \in {"COMPLETED", "FAILED"} : exec' = [exec EXCEPT ![e].status = s]
    BY <1>6 DEF Finish
  <2>2. Exists(e) /\ s \in Statuses /\ s \notin ActiveStatuses
    BY <1>6 DEF Finish, Exists, Statuses, ActiveStatuses
  <2> QED
    BY <2>1, <2>2, StatusChange
<1>7. ASSUME NEW e \in Executions, Cancel(e) PROVE Onward /\ Waiting
  <2>1. exec' = [exec EXCEPT ![e].status = "CANCELLED"]
    BY <1>7 DEF Cancel
  <2>2. Exists(e) /\ Active(e) /\ "CANCELLED" \in Statuses
    BY <1>7 DEF Cancel, Exists, Active, Statuses, ActiveStatuses
  <2> QED
    BY <2>1, <2>2, StatusChange
<1>8. ASSUME NEW e \in Executions, CancelChildren(e) PROVE Onward /\ Waiting
  <2>1. ASSUME NEW c \in Executions
        PROVE  /\ exec'[c] \in Rows
               /\ Exists(c) => Untouched(c) \/ KeepsRow(c)
               /\ ~Exists(c) => Untouched(c)
    <3>1. exec[c] \in Rows
      BY DEF TypeOK
    <3>2. CASE exec[c].parent = e /\ Active(c)
      <4>1. exec'[c] = [exec[c] EXCEPT !.status = "CANCELLED"]
        BY <1>8, <3>2 DEF CancelChildren
      <4>2. "CANCELLED" \in Statuses
        BY DEF Statuses
      <4>3. Exists(c)
        BY <3>2 DEF Active, ActiveStatuses, Exists
      <4>4. /\ exec'[c] \in Rows /\ exec'[c].status = "CANCELLED"
            /\ exec'[c].action = exec[c].action
            /\ exec'[c].targets = exec[c].targets
        <5>1. PICK x \in Rows : x = exec[c]
          BY <3>1
        <5>2. PICK y : y = exec'[c] /\ y = [x EXCEPT !.status = "CANCELLED"]
          BY <4>1, <5>1
        <5>3. /\ y \in Rows /\ y.status = "CANCELLED"
              /\ y.action = x.action /\ y.targets = x.targets
          BY <4>2, <5>1, <5>2 DEF Rows
        <5> QED
          BY <5>1, <5>2, <5>3
      <4> QED
        BY <3>2, <4>2, <4>3, <4>4 DEF KeepsRow
    <3>3. CASE ~(exec[c].parent = e /\ Active(c))
      <4>1. exec'[c] = exec[c]
        BY <1>8, <3>3 DEF CancelChildren
      <4> QED
        BY <3>1, <4>1 DEF Untouched
    <3> QED
      BY <3>2, <3>3
  <2>2. exec' = [c \in Executions |-> exec'[c]]
    BY <1>8 DEF CancelChildren
  <2>3. Requests \subseteq Executions
    BY DEF Executions, Roots
  <2> QED
    BY <2>1, <2>2, <2>3 DEF Onward, Waiting
<1> QED
  BY <1>1, <1>2, <1>3, <1>4, <1>5, <1>6, <1>7, <1>8 DEF Execution
-----------------------------------------------------------------------------
(* What a submission recorded stays, and it moves on only after its check. *)
Moves ==
    \A r \in Requests :
        /\ req'[r].action = req[r].action /\ req'[r].targets = req[r].targets
        /\ req'[r].todo = req[r].todo /\ req'[r].law = req[r].law
        /\ req'[r].earlier = req[r].earlier
        /\ \/ req'[r].pc \in {req[r].pc, "done"}
           \/ (req'[r].pc = "launched" /\ Exists(r))

Consistent == Paced /\ Recorded /\ EarlierExist /\ Cleared

(* The rows go on and no submission reads, checks or creates.              *)
LEMMA RowsKeep ==
    ASSUME AdmissionInv, Onward, Waiting, Moves
    PROVE  Consistent'
<1> USE AdmissionAssumption DEF AdmissionInv
<1>0. Requests \subseteq Roots /\ Roots \subseteq Executions /\ Roots \cap Children = {}
  BY DEF Executions, Roots
<1>1. ASSUME NEW e \in Executions, Exists(e)
      PROVE  /\ Exists(e)' /\ exec'[e].action = exec[e].action
             /\ exec'[e].targets = exec[e].targets
             /\ e \in Roots /\ Active(e)' => Active(e)
  <2>1. CASE Untouched(e)
    BY <1>1, <2>1 DEF Untouched, Exists, Active
  <2>2. CASE KeepsRow(e)
    BY <1>0, <2>2 DEF KeepsRow, Exists, Active, Statuses
  <2> QED
    BY <1>1, <2>1, <2>2 DEF Onward
<1>2. \A r \in Requests : ~Exists(r) => ~Exists(r)'
  BY DEF Waiting, Untouched, Exists
<1>3. Paced'
  BY <1>0, <1>1, <1>2 DEF Paced, Moves
<1>4. Recorded'
  BY <1>0, <1>1, <1>2 DEF Recorded, Moves
<1>5. EarlierExist'
  <2>1. \A r \in Requests : req[r].earlier \subseteq Executions
    BY SubmissionParts DEF TypeOK
  <2> QED
    BY <1>1, <2>1 DEF EarlierExist, Moves
<1>6. Cleared'
  <2> SUFFICES ASSUME NEW r \in Requests, NEW e \in Roots,
                      req'[r].pc = "check" \/ Exists(r)',
                      e \in req'[r].earlier, Active(e)',
                      NEW p \in req'[r].law \ req'[r].todo
               PROVE  ~Clash(p, req[r].action, req[r].targets, e)'
    BY DEF Cleared
  <2>0. p \in req[r].law \ req[r].todo /\ e \in req[r].earlier
    BY DEF Moves
  <2>1. Exists(e)
    BY <2>0 DEF EarlierExist
  <2>2. /\ Active(e) /\ exec'[e].action = exec[e].action
        /\ exec'[e].targets = exec[e].targets
    BY <1>0, <1>1, <2>1
  <2>3. req[r].pc = "check" \/ Exists(r)
    BY <1>2 DEF Moves
  <2>4. ~Clash(p, req[r].action, req[r].targets, e)
    BY <2>0, <2>2, <2>3 DEF Cleared
  <2>5. req'[r].action = req[r].action /\ req'[r].targets = req[r].targets
    BY DEF Moves
  <2> QED
    BY <2>2, <2>4, <2>5 DEF Clash
<1> QED
  BY <1>3, <1>4, <1>5, <1>6 DEF Consistent

LEMMA StaysPut ==
    ASSUME AdmissionInv, UNCHANGED req
    PROVE  Moves
BY DEF Moves

LEMMA ReadKeeps ==
    ASSUME AdmissionInv, NEW r \in Requests, ReadRules(r)
    PROVE  Consistent'
<1> USE DEF AdmissionInv
<1>1. PICK a \in Actions, hosts \in SUBSET Hosts :
         req' = [req EXCEPT ![r] =
            [pc |-> "check", action |-> a, targets |-> hosts,
             todo |-> Involving(a), law |-> Involving(a),
             earlier |-> {e \in Executions : Exists(e)}]]
  BY DEF ReadRules
<1>2. /\ req'[r].pc = "check" /\ req'[r].action = a
      /\ req'[r].law = req'[r].todo
      /\ req'[r].earlier = {e \in Executions : Exists(e)}
      /\ \A q \in Requests \ {r} : req'[q] = req[q]
  BY <1>1 DEF TypeOK
<1>3. UNCHANGED exec /\ req[r].pc = "new"
  BY DEF ReadRules
<1>4. ~Exists(r)
  BY <1>3 DEF Paced
<1>5. \A e : Exists(e)' = Exists(e) /\ Active(e)' = Active(e)
  BY <1>3 DEF Exists, Active
<1>6. Paced'
  BY <1>2, <1>4, <1>5 DEF Paced
<1>7. Recorded'
  BY <1>2, <1>3, <1>4, <1>5 DEF Recorded
<1>8. EarlierExist'
  BY <1>2, <1>5 DEF EarlierExist
<1>9. Cleared'
  <2> SUFFICES ASSUME NEW q \in Requests, NEW e \in Roots,
                      req'[q].pc = "check" \/ Exists(q)',
                      e \in req'[q].earlier, Active(e)',
                      NEW p \in req'[q].law \ req'[q].todo
               PROVE  ~Clash(p, req[q].action, req[q].targets, e)'
    BY DEF Cleared
  <2>1. q # r /\ req'[q] = req[q]
    BY <1>2
  <2>2. ~Clash(p, req[q].action, req[q].targets, e)
    BY <1>5, <2>1 DEF Cleared
  <2> QED
    BY <1>3, <2>1, <2>2 DEF Clash
<1> QED
  BY <1>6, <1>7, <1>8, <1>9 DEF Consistent

(* A rule that lets the submission pass is not met by an active execution. *)
LEMMA PassedRule ==
    ASSUME NEW p \in Rules, NEW a, NEW hosts, NEW e, Active(e),
           ~Blocks(p, a, hosts, e)
    PROVE  ~Clash(p, a, hosts, e)
<1> SUFFICES ASSUME Clash(p, a, hosts, e) PROVE FALSE
  OBVIOUS
<1>1. {p.action, p.other} = {a, exec[e].action}
  BY DEF Clash
<1>2. exec[e].action = Rival(p, a)
  BY <1>1 DEF Rival
<1>3. p.same => hosts = {} \/ exec[e].targets \cap hosts # {}
  BY DEF Clash
<1> QED
  BY <1>2, <1>3 DEF Blocks

LEMMA CheckKeeps ==
    ASSUME AdmissionInv, NEW r \in Requests, CheckRule(r)
    PROVE  Consistent'
<1> USE DEF AdmissionInv
<1> DEFINE Refused(p) ==
      \E e \in Executions : Blocks(p, req[r].action, req[r].targets, e)
<1>1. PICK x \in req[r].todo :
         req' = [req EXCEPT ![r].todo = @ \ {x},
                            ![r].pc = IF Refused(x) THEN "done" ELSE "check"]
  BY DEF CheckRule
<1>2. req[r] \in Submissions /\ req[r].todo \subseteq Rules
  BY SubmissionParts DEF TypeOK
<1>3. /\ req'[r].todo = req[r].todo \ {x}
      /\ req'[r].pc = IF Refused(x) THEN "done" ELSE "check"
      /\ req'[r].action = req[r].action /\ req'[r].targets = req[r].targets
      /\ req'[r].law = req[r].law /\ req'[r].earlier = req[r].earlier
  BY <1>1, <1>2 DEF TypeOK, Submissions
<1>4. \A q \in Requests \ {r} : req'[q] = req[q]
  BY <1>1 DEF TypeOK
<1>5. UNCHANGED exec /\ req[r].pc = "check"
  BY DEF CheckRule
<1>6. ~Exists(r)
  BY <1>5 DEF Paced
<1>7. \A e : Exists(e)' = Exists(e) /\ Active(e)' = Active(e)
  BY <1>5 DEF Exists, Active
<1>8. Paced'
  BY <1>3, <1>4, <1>5, <1>6, <1>7 DEF Paced
<1>9. Recorded'
  BY <1>4, <1>5, <1>6, <1>7 DEF Recorded
<1>10. EarlierExist'
  BY <1>3, <1>4, <1>7 DEF EarlierExist
<1>11. Cleared'
  <2> SUFFICES ASSUME NEW q \in Requests, NEW e \in Roots,
                      req'[q].pc = "check" \/ Exists(q)',
                      e \in req'[q].earlier, Active(e)',
                      NEW p \in req'[q].law \ req'[q].todo
               PROVE  ~Clash(p, req[q].action, req[q].targets, e)'
    BY DEF Cleared
  <2>1. req'[q].action = req[q].action /\ req'[q].targets = req[q].targets
    BY <1>3, <1>4
  <2>2. ~Clash(p, req[q].action, req[q].targets, e)
    <3>1. CASE q # r
      BY <1>4, <1>7, <3>1 DEF Cleared
    <3>2. CASE q = r /\ p # x
      BY <1>3, <1>5, <1>7, <3>2 DEF Cleared
    <3>3. CASE q = r /\ p = x
      <4>1. ~Refused(x)
        BY <1>3, <1>6, <1>7, <3>3
      <4>2. e \in Executions
        BY DEF Executions
      <4>3. ~Blocks(x, req[r].action, req[r].targets, e)
        BY <4>1, <4>2
      <4> QED
        BY <1>2, <1>7, <3>3, <4>3, PassedRule
    <3> QED
      BY <3>1, <3>2, <3>3
  <2> QED
    BY <1>5, <2>1, <2>2 DEF Clash
<1> QED
  BY <1>8, <1>9, <1>10, <1>11 DEF Consistent

LEMMA CreateKeeps ==
    ASSUME AdmissionInv, NEW r \in Requests, Create(r)
    PROVE  Consistent'
<1> USE DEF AdmissionInv
<1>0. Requests \subseteq Executions /\ Roots \subseteq Executions
  BY DEF Executions, Roots
<1>1. req[r] \in Submissions
  BY DEF TypeOK
<1>2. /\ req[r].action \in Actions \cup {Nobody}
      /\ req[r].targets \in SUBSET Hosts
  BY <1>1, SubmissionParts
<1>3. PICK p \in Executions \cup {Nobody} :
         exec' = [exec EXCEPT ![r] = Submitted(req[r].action, req[r].targets, p)]
  BY AdmissionAssumption DEF Create
<1>4. /\ exec'[r].status = "SUBMITTED"
      /\ exec'[r].action = req[r].action /\ exec'[r].targets = req[r].targets
  <2>1. exec'[r] = Submitted(req[r].action, req[r].targets, p)
    BY <1>0, <1>3 DEF TypeOK
  <2> QED
    BY <1>2, <1>3, <2>1, NewRows
<1>5. \A e \in Executions \ {r} : exec'[e] = exec[e]
  BY <1>3 DEF TypeOK
<1>6. /\ req'[r].pc = "launch" /\ req'[r].todo = req[r].todo
      /\ req'[r].action = req[r].action /\ req'[r].targets = req[r].targets
      /\ req'[r].law = req[r].law /\ req'[r].earlier = req[r].earlier
  BY <1>1 DEF Create, TypeOK, Submissions
<1>7. \A q \in Requests \ {r} : req'[q] = req[q]
  BY DEF Create, TypeOK
<1>8. req[r].pc = "check" /\ req[r].todo = {} /\ ~Exists(r)
  BY DEF Create, Paced
<1>9. Exists(r)' /\ \A e \in Executions \ {r} : Exists(e)' = Exists(e)
  BY <1>4, <1>5 DEF Exists
<1>10. Paced'
  BY <1>0, <1>6, <1>7, <1>9 DEF Paced
<1>11. Recorded'
  BY <1>0, <1>4, <1>5, <1>6, <1>7, <1>8, <1>9 DEF Recorded
<1>12. EarlierExist'
  <2>1. \A q \in Requests : req[q].earlier \subseteq Executions
    BY SubmissionParts DEF TypeOK
  <2> QED
    BY <1>6, <1>7, <1>9, <2>1 DEF EarlierExist
<1>13. Cleared'
  <2> SUFFICES ASSUME NEW q \in Requests, NEW e \in Roots,
                      req'[q].pc = "check" \/ Exists(q)',
                      e \in req'[q].earlier, Active(e)',
                      NEW x \in req'[q].law \ req'[q].todo
               PROVE  ~Clash(x, req[q].action, req[q].targets, e)'
    BY DEF Cleared
  <2>1. /\ x \in req[q].law \ req[q].todo /\ e \in req[q].earlier
        /\ req'[q].action = req[q].action /\ req'[q].targets = req[q].targets
    BY <1>6, <1>7
  <2>2. e # r /\ exec'[e] = exec[e]
    BY <1>0, <1>5, <1>8, <2>1 DEF EarlierExist
  <2>3. req[q].pc = "check" \/ Exists(q)
    BY <1>0, <1>7, <1>8, <1>9
  <2>4. Active(e)
    BY <2>2 DEF Active
  <2>5. ~Clash(x, req[q].action, req[q].targets, e)
    BY <2>1, <2>3, <2>4 DEF Cleared
  <2> QED
    BY <2>1, <2>2, <2>5 DEF Clash
<1> QED
  BY <1>10, <1>11, <1>12, <1>13 DEF Consistent

LEMMA SubmissionMoves ==
    ASSUME AdmissionInv, NEW r \in Requests,
           Launch(r) \/ Return(r) \/ LaunchFails(r) \/ Abandon(r)
    PROVE  Moves
<1> USE DEF AdmissionInv
<1>1. PICK s \in {"launched", "done"} :
         /\ req' = [req EXCEPT ![r].pc = s]
         /\ s = "launched" => req[r].pc = "launch"
  BY DEF Launch, Return, LaunchFails, Abandon
<1>2. req[r] \in Submissions
  BY DEF TypeOK
<1>3. /\ req'[r].pc = s /\ req'[r].todo = req[r].todo
      /\ req'[r].action = req[r].action /\ req'[r].targets = req[r].targets
      /\ req'[r].law = req[r].law /\ req'[r].earlier = req[r].earlier
  BY <1>1, <1>2 DEF TypeOK, Submissions
<1>4. \A q \in Requests \ {r} : req'[q] = req[q]
  BY <1>1 DEF TypeOK
<1>5. s = "launched" => Exists(r)
  BY <1>1 DEF Paced
<1> QED
  BY <1>1, <1>3, <1>4, <1>5 DEF Moves
-----------------------------------------------------------------------------
LEMMA TypeOfSubmissions ==
    ASSUME TypeOK, NEW r \in Requests, Submission(r)
    PROVE  req' \in [Requests -> Submissions] /\ UNCHANGED <<rules, admin, cascade>>
<1> USE DEF TypeOK
<1>0. req[r] \in Submissions
  OBVIOUS
<1>1. CASE ReadRules(r)
  <2>1. PICK a \in Actions, hosts \in SUBSET Hosts :
           req' = [req EXCEPT ![r] =
              [pc |-> "check", action |-> a, targets |-> hosts,
               todo |-> Involving(a), law |-> Involving(a),
               earlier |-> {e \in Executions : Exists(e)}]]
    BY <1>1 DEF ReadRules
  <2>2. Involving(a) \in SUBSET Rules /\ {e \in Executions : Exists(e)} \in SUBSET Executions
    BY DEF Involving
  <2>3. [pc |-> "check", action |-> a, targets |-> hosts,
         todo |-> Involving(a), law |-> Involving(a),
         earlier |-> {e \in Executions : Exists(e)}] \in Submissions
    BY <2>2 DEF Submissions
  <2> QED
    BY <1>1, <2>1, <2>3 DEF ReadRules
<1>2. CASE CheckRule(r)
  <2>1. PICK x \in req[r].todo, s \in {"done", "check"} :
           req' = [req EXCEPT ![r].todo = @ \ {x}, ![r].pc = s]
    BY <1>2 DEF CheckRule
  <2>2. [req[r] EXCEPT !.todo = @ \ {x}, !.pc = s] \in Submissions
    BY <1>0 DEF Submissions
  <2>3. req' = [req EXCEPT ![r] = [req[r] EXCEPT !.todo = @ \ {x}, !.pc = s]]
    BY <1>0, <2>1 DEF Submissions
  <2> QED
    BY <1>2, <2>2, <2>3 DEF CheckRule
<1>3. CASE ~ReadRules(r) /\ ~CheckRule(r)
  <2>1. PICK s \in {"launch", "launched", "done"} : req' = [req EXCEPT ![r].pc = s]
    BY <1>3 DEF Submission, Create, Launch, Return, LaunchFails, Abandon
  <2>2. [req[r] EXCEPT !.pc = s] \in Submissions
    BY <1>0 DEF Submissions
  <2>3. req' = [req EXCEPT ![r] = [req[r] EXCEPT !.pc = s]]
    BY <2>1
  <2>4. UNCHANGED <<rules, admin, cascade>>
    BY <1>3 DEF Submission, Create, Launch, Return, LaunchFails, Abandon
  <2> QED
    BY <2>2, <2>3, <2>4
<1> QED
  BY <1>1, <1>2, <1>3

LEMMA TypeOfExecutions ==
    ASSUME TypeOK, Execution
    PROVE  cascade' \subseteq Executions /\ UNCHANGED <<rules, admin, req>>
<1> USE DEF TypeOK
<1>1. /\ Beats \subseteq Executions
      /\ Children \subseteq Executions
  BY DEF Executions, Roots
<1>2. ASSUME NEW b \in Beats, BeatCreates(b) \/ BeatLaunches(b)
      PROVE  UNCHANGED <<rules, admin, req, cascade>>
  BY <1>2 DEF BeatCreates, BeatLaunches
<1>3. ASSUME NEW c \in Children, StepCreates(c) \/ StepLaunches(c) \/ StepFails(c)
      PROVE  UNCHANGED <<rules, admin, req, cascade>>
  BY <1>3 DEF StepCreates, StepLaunches, StepFails
<1>4. ASSUME NEW e \in Executions, Finish(e) \/ Cancel(e) \/ CancelChildren(e)
      PROVE  cascade' \subseteq Executions /\ UNCHANGED <<rules, admin, req>>
  BY <1>4 DEF Finish, Cancel, CancelChildren
<1> QED
  BY <1>2, <1>3, <1>4 DEF Execution

LEMMA TypeOfRules ==
    ASSUME TypeOK, NEW d \in Admins, Administration(d)
    PROVE  /\ rules' \subseteq Rules
           /\ admin' \in [Admins ->
                 [pc : {"idle", "insert", "mirror", "done"}, rule : Rules]]
           /\ UNCHANGED <<exec, req, cascade>>
<1> USE DEF TypeOK
<1>1. /\ admin[d] \in [pc : {"idle", "insert", "mirror", "done"}, rule : Rules]
      /\ admin[d].rule \in Rules
  OBVIOUS
<1>2. Mirror(admin[d].rule) \in Rules
  BY <1>1 DEF Mirror, Rules
<1>3. UNCHANGED <<exec, req, cascade>>
  BY
     DEF Administration, ValidateRule, InsertRule, DeleteRule, DeleteMirror,
         ImportRules
<1>4. PICK s \in {"idle", "insert", "mirror", "done"} : admin' = [admin EXCEPT ![d].pc = s]
  BY
     DEF Administration, ValidateRule, InsertRule, DeleteRule, DeleteMirror,
         ImportRules
<1>5. rules' \subseteq Rules
  <2>1. CASE InsertRule(d)
    BY <1>1, <1>2, <2>1 DEF InsertRule
  <2>2. CASE ImportRules(d)
    BY <2>2 DEF ImportRules
  <2>3. CASE ValidateRule(d) \/ DeleteRule(d) \/ DeleteMirror(d)
    BY <2>3 DEF ValidateRule, DeleteRule, DeleteMirror
  <2> QED
    BY <2>1, <2>2, <2>3 DEF Administration
<1> QED
  BY <1>1, <1>3, <1>4, <1>5

(* Rows go on whatever the step is.                                        *)
LEMMA StepGoesOn ==
    ASSUME AdmissionInv, [Next]_vars
    PROVE  Onward
<1> USE DEF AdmissionInv
<1>1. ASSUME NEW r \in Requests, Submission(r) PROVE Onward
  BY <1>1, SubmissionGoesOn
<1>2. CASE Execution
  BY <1>2, ExecutionGoesOn
<1>3. ASSUME NEW d \in Admins, Administration(d) PROVE Onward
  BY <1>3, TypeOfRules, NoChange
<1>4. CASE UNCHANGED vars
  BY <1>4, NoChange DEF vars
<1> QED
  BY <1>1, <1>2, <1>3, <1>4 DEF Next

LEMMA StepHolds ==
    ASSUME AdmissionInv, [Next]_vars
    PROVE  AdmissionInv'
<1> USE DEF AdmissionInv
<1>1. exec' \in [Executions -> Rows]
  BY StepGoesOn DEF Onward
<1>2. ASSUME NEW r \in Requests, Submission(r) PROVE AdmissionInv'
  <2>1. TypeOK'
    BY <1>1, <1>2, TypeOfSubmissions DEF TypeOK
  <2>2. CASE ReadRules(r)
    BY <2>1, <2>2, ReadKeeps DEF Consistent
  <2>3. CASE CheckRule(r)
    BY <2>1, <2>3, CheckKeeps DEF Consistent
  <2>4. CASE Create(r)
    BY <2>1, <2>4, CreateKeeps DEF Consistent
  <2>5. CASE ~Create(r) /\ (Launch(r) \/ Return(r) \/ LaunchFails(r) \/ Abandon(r))
    <3>1. Onward /\ Waiting
      BY <1>2, <2>5, SubmissionGoesOn
    <3>2. Moves
      BY <2>5, SubmissionMoves
    <3> QED
      BY <2>1, <3>1, <3>2, RowsKeep DEF Consistent
  <2> QED
    BY <1>2, <2>2, <2>3, <2>4, <2>5 DEF Submission
<1>3. CASE Execution
  <2>1. TypeOK'
    BY <1>1, <1>3, TypeOfExecutions DEF TypeOK
  <2>2. Onward /\ Waiting /\ Moves
    BY <1>3, ExecutionGoesOn, TypeOfExecutions, StaysPut
  <2> QED
    BY <2>1, <2>2, RowsKeep DEF Consistent
<1>4. ASSUME NEW d \in Admins, Administration(d) PROVE AdmissionInv'
  <2>1. TypeOK'
    BY <1>1, <1>4, TypeOfRules DEF TypeOK
  <2>2. Onward /\ Waiting /\ Moves
    BY <1>4, TypeOfRules, NoChange, StaysPut
  <2> QED
    BY <2>1, <2>2, RowsKeep DEF Consistent
<1>5. CASE UNCHANGED vars
  <2>1. UNCHANGED exec /\ UNCHANGED req /\ UNCHANGED <<rules, admin, cascade>>
    BY <1>5 DEF vars
  <2>2. TypeOK'
    BY <2>1 DEF TypeOK
  <2>3. Onward /\ Waiting /\ Moves
    BY <2>1, NoChange, StaysPut
  <2> QED
    BY <2>2, <2>3, RowsKeep DEF Consistent
<1> QED
  BY <1>2, <1>3, <1>4, <1>5 DEF Next
-----------------------------------------------------------------------------
(* The inductive invariant holds of every submission, scheduler, child and *)
(* administrator.                                                          *)
THEOREM AdmissionInvariant == Spec => []AdmissionInv
<1>1. Init => AdmissionInv
  BY InitHolds
<1>2. AdmissionInv /\ [Next]_vars => AdmissionInv'
  BY StepHolds
<1> QED
  BY <1>1, <1>2, PTL DEF Spec

(* Rows, rules and submissions keep their types; in particular no launch,  *)
(* cancellation or failure leaves a status that is none of the model's.    *)
THEOREM AdmissionTypeCorrect == Spec => []TypeOK
<1>1. AdmissionInv => TypeOK
  BY DEF AdmissionInv
<1> QED
  BY <1>1, AdmissionInvariant, PTL

(* Incompatible executions are active together only when their submissions *)
(* overlapped: what was checked before the row existed is all that ever    *)
(* protects it, and it is enough against executions that existed by then.  *)
THEOREM RivalsHadOverlapped == Spec => []RivalsOverlapped
<1>1. AdmissionInv => RivalsOverlapped
  <2> SUFFICES ASSUME AdmissionInv, NEW f \in Requests, NEW e \in Roots,
                      Active(f), Active(e), e \in req[f].earlier,
                      NEW p \in req[f].law, Incompatible(p, f, e)
               PROVE  FALSE
    BY DEF RivalsOverlapped
  <2> USE DEF AdmissionInv
  <2>1. Exists(f)
    BY DEF Active, ActiveStatuses, Exists
  <2>2. /\ exec[f].action = req[f].action /\ exec[f].targets = req[f].targets
        /\ req[f].todo = {}
    BY <2>1 DEF Recorded
  <2>3. ~Clash(p, req[f].action, req[f].targets, e)
    BY <2>1, <2>2 DEF Cleared
  <2> QED
    BY <2>2, <2>3 DEF Clash, Incompatible
<1> QED
  BY <1>1, AdmissionInvariant, PTL

(* No execution that is over becomes active again, unless a step created   *)
(* it.                                                                     *)
THEOREM OverStaysOver == Spec => EndedStaysEnded
<1>1. AdmissionInv /\ [Next]_vars =>
        [\A e \in Roots : (Exists(e) /\ ~Active(e)) => ~Active(e)']_vars
  <2> SUFFICES ASSUME AdmissionInv, [Next]_vars, NEW e \in Roots,
                      Exists(e), ~Active(e)
               PROVE  ~Active(e)'
    OBVIOUS
  <2>1. e \in Executions /\ e \notin Children
    BY AdmissionAssumption DEF Executions
  <2>2. Untouched(e) \/ KeepsRow(e)
    BY <2>1, StepGoesOn DEF Onward
  <2> QED
    BY <2>1, <2>2 DEF Untouched, KeepsRow, Active
<1> QED
  BY <1>1, AdmissionInvariant, PTL DEF Spec, EndedStaysEnded
=============================================================================
