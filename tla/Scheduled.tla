----------------------------- MODULE Scheduled ------------------------------
(***************************************************************************)
(* Scheduled executions: the beats that launch what is due                 *)
(* (tasks/scheduled.py), one started every minute and allowed to take five *)
(* and a half, and the endpoints that change a schedule meanwhile          *)
(* (views/scheduled_views.py, scheduling_service.py).                      *)
(*                                                                         *)
(*   clock       minutes                                                   *)
(*   se[s]       the schedule: status, at (its date, if it is one-time),   *)
(*               active and next (its pattern, if it recurs)               *)
(*   beat[b]     pc; todo: the schedules it read and has not launched; at: *)
(*               the one it is at                                          *)
(*   req[u]      a request between its read and its write: op, the copy it *)
(*               read                                                      *)
(*   launches[s], unmarked[s]   the executions created from a one-time     *)
(*               schedule, and how many of them were never recorded: the   *)
(*               beat died or raised                                       *)
(*   mishaps     launches that were not recorded (at most MaxMishaps)      *)
(*                                                                         *)
(* A read and the write that rests on it are two steps: nothing is locked  *)
(* in between.                                                             *)
(***************************************************************************)
EXTENDS Schedule, FiniteSets

CONSTANTS Schedules, Recurs, Pattern, Beats, Users, Jumps, MaxClock, MaxMishaps

ASSUME ScheduledAssumption ==
    /\ Recurs \subseteq Schedules
    /\ Pattern \in [Recurs -> Patterns]
    /\ \A s \in Recurs : Pattern[s].type = "cron" => Pattern[s].minute > 0
    /\ IsFiniteSet(Beats)
    /\ Jumps \subseteq Nat \ {0}
    /\ MaxClock \in Nat /\ MaxMishaps \in Nat

VARIABLES clock, se, beat, req, launches, unmarked, mishaps

ghosts == <<launches, unmarked, mishaps>>
vars == <<clock, se, beat, req, ghosts>>

OneTime == Schedules \ Recurs

NoSchedule == [status |-> "none", at |-> 0, active |-> FALSE, next |-> 0]
BeatIdle == [pc |-> "idle", todo |-> {}, at |-> 0]
NoRequest == [op |-> "none", on |-> 0, copy |-> NoSchedule]

Due(s) ==
    /\ se[s].status = "pending"
    /\ IF s \in Recurs THEN se[s].active /\ se[s].next <= clock ELSE se[s].at <= clock

Init ==
    /\ clock = 0
    /\ se = [s \in Schedules |-> NoSchedule]
    /\ beat = [b \in Beats |-> BeatIdle]
    /\ req = [u \in Users |-> NoRequest]
    /\ launches = [s \in OneTime |-> 0]
    /\ unmarked = [s \in OneTime |-> 0]
    /\ mishaps = 0

Passes(d) ==
    /\ clock + d <= MaxClock
    /\ clock' = clock + d
    /\ UNCHANGED <<se, beat, req, ghosts>>
-----------------------------------------------------------------------------
(* POST: a date ahead, or a pattern and its next date.  A step of a        *)
(* workflow (ScheduleExecutionHandler) creates a date that may be due.     *)
Create(s) ==
    /\ se[s].status = "none"
    /\ \/ /\ s \in OneTime
          /\ \E d \in Jumps \cup {0} :
               se' = [se EXCEPT ![s].status = "pending", ![s].at = clock + d]
       \/ /\ s \in Recurs
          /\ se' = [se EXCEPT ![s] = [status |-> "pending", at |-> 0, active |-> TRUE,
                                      next |-> NextDate(Pattern[s], clock)]]
    /\ UNCHANGED <<clock, beat, req, ghosts>>

(* A request reads the schedule.  All but the toggle want it pending.      *)
Read(u, s, op) ==
    /\ req[u] = NoRequest
    /\ se[s].status # "none"
    /\ op # "on" /\ op # "off" => se[s].status = "pending"
    /\ op \in {"on", "off"} => s \in Recurs
    /\ req' = [req EXCEPT ![u] = [op |-> op, on |-> s, copy |-> se[s]]]
    /\ UNCHANGED <<clock, se, beat, ghosts>>

Answered(u) == req' = [req EXCEPT ![u] = NoRequest]

(* cancel_scheduled_execution: both rows are saved whole.                  *)
WriteCancelled(u) ==
    LET s == req[u].on
    IN  /\ req[u].op = "cancel"
        /\ se' = [se EXCEPT ![s] =
                     [req[u].copy EXCEPT !.status = "cancelled", !.active = FALSE]]
        /\ Answered(u)
        /\ UNCHANGED <<clock, beat, ghosts>>

(* PATCH executed, by a scheduler outside: a pattern that is active goes   *)
(* on.                                                                     *)
WriteExecuted(u) ==
    LET s == req[u].on
    IN  /\ req[u].op = "executed"
        /\ se' = [se EXCEPT ![s] =
               IF req[u].copy.active
               THEN [@ EXCEPT !.status = "pending", !.next = NextDate(Pattern[s], clock)]
               ELSE [@ EXCEPT !.status = "executed"]]
        /\ Answered(u)
        /\ UNCHANGED <<clock, beat, ghosts>>

(* Fault: PUT saves the whole schedule.                                    *)
WriteDateWhole(u) ==
    LET s == req[u].on
    IN  /\ req[u].op = "put"
        /\ \E d \in Jumps :
             se' = [se EXCEPT ![s] =
               IF s \in Recurs THEN [@ EXCEPT !.next = clock + d]
                               ELSE [req[u].copy EXCEPT !.at = clock + d]]
        /\ Answered(u)
        /\ UNCHANGED <<clock, beat, ghosts>>

(* PUT: the date alone, which has to be ahead.                             *)
WriteDate(u) ==
    LET s == req[u].on
    IN  /\ req[u].op = "put"
        /\ \E d \in Jumps :
             se' = [se EXCEPT ![s] = IF s \in Recurs THEN [@ EXCEPT !.next = clock + d]
                                                     ELSE [@ EXCEPT !.at = clock + d]]
        /\ Answered(u)
        /\ UNCHANGED <<clock, beat, ghosts>>

(* Fault: a pattern is switched on with the date it had.                   *)
WriteToggleKeeps(u) ==
    LET s == req[u].on
    IN  /\ req[u].op \in {"on", "off"}
        /\ se' = [se EXCEPT ![s].active = req[u].op = "on",
                            ![s].next = req[u].copy.next]
        /\ Answered(u)
        /\ UNCHANGED <<clock, beat, ghosts>>

(* The switch of a pattern, saved with a next date: a new one, or the one  *)
(* that was read.                                                          *)
WriteToggle(u) ==
    LET s == req[u].on
    IN  /\ req[u].op \in {"on", "off"}
        /\ se' = [se EXCEPT ![s].active = req[u].op = "on",
                            ![s].next = IF req[u].op = "on"
                                        THEN NextDate(Pattern[s], clock)
                                        ELSE req[u].copy.next]
        /\ Answered(u)
        /\ UNCHANGED <<clock, beat, ghosts>>

Request(u) ==
    \/ \E s \in Schedules, op \in {"cancel", "executed", "put", "on", "off"} : Read(u, s, op)
    \/ WriteCancelled(u) \/ WriteExecuted(u) \/ WriteDate(u) \/ WriteToggle(u)
-----------------------------------------------------------------------------
(* Fault: the status is not looked at.                                     *)
BeatListsAll(b) ==
    LET due == {s \in Schedules : /\ se[s].status # "none"
                                  /\ IF s \in Recurs THEN Due(s) ELSE se[s].at <= clock}
    IN  /\ beat[b] = BeatIdle /\ due # {}
        /\ beat' = [beat EXCEPT ![b] = [pc |-> "launch", todo |-> due, at |-> 0]]
        /\ UNCHANGED <<clock, se, req, ghosts>>

(* What is due is read and locked; the transaction ends, and the locks     *)
(* with it, before anything is launched.                                   *)
BeatLists(b) ==
    LET due == {s \in Schedules : Due(s)}
    IN  /\ beat[b] = BeatIdle /\ due # {}
        /\ beat' = [beat EXCEPT ![b] = [pc |-> "launch", todo |-> due, at |-> 0]]
        /\ UNCHANGED <<clock, se, req, ghosts>>

(* An execution is created and started, in the order of the ids; a failure *)
(* of the start is logged only.                                            *)
BeatLaunches(b, s) ==
    /\ beat[b].pc = "launch"
    /\ s \in beat[b].todo /\ \A o \in beat[b].todo : s <= o
    /\ launches' = [o \in OneTime |-> launches[o] + IF o = s THEN 1 ELSE 0]
    /\ beat' = [beat EXCEPT ![b] = [pc |-> "mark", todo |-> @.todo \ {s}, at |-> s]]
    /\ UNCHANGED <<clock, se, req, unmarked, mishaps>>

GoesOn(b) ==
    beat' = [beat EXCEPT ![b] = IF beat[b].todo = {} THEN BeatIdle
                                ELSE [@ EXCEPT !.pc = "launch", !.at = 0]]

(* Fault: the next date of a pattern is that of the beat before.           *)
BeatMarksOnce(b) ==
    LET s == beat[b].at
    IN  /\ beat[b].pc = "mark"
        /\ se' = [se EXCEPT ![s] =
               IF s \in OneTime /\ @.status = "pending" THEN [@ EXCEPT !.status = "executed"]
               ELSE @]
        /\ GoesOn(b)
        /\ UNCHANGED <<clock, req, ghosts>>

(* One-time: a compare and swap from pending.  A pattern, active when it   *)
(* was read: its next date, whatever became of it since.                   *)
BeatMarks(b) ==
    LET s == beat[b].at
    IN  /\ beat[b].pc = "mark"
        /\ se' = [se EXCEPT ![s] =
               IF s \in Recurs THEN [@ EXCEPT !.next = NextDate(Pattern[s], clock)]
               ELSE IF @.status = "pending" THEN [@ EXCEPT !.status = "executed"]
               ELSE @]
        /\ GoesOn(b)
        /\ UNCHANGED <<clock, req, ghosts>>

(* The mark raised and the beat goes on, or the soft limit ended it, or it *)
(* was killed.                                                             *)
BeatLoses(b) ==
    LET s == beat[b].at
    IN  /\ mishaps < MaxMishaps
        /\ beat[b].pc = "mark"
        /\ mishaps' = mishaps + 1
        /\ unmarked' = [o \in OneTime |-> unmarked[o] + IF o = s THEN 1 ELSE 0]
        /\ \/ GoesOn(b)
           \/ beat[b].todo # {} /\ beat' = [beat EXCEPT ![b] = BeatIdle]
        /\ UNCHANGED <<clock, se, req, launches>>

(* create_execution raised.                                                *)
BeatSkips(b, s) ==
    /\ mishaps < MaxMishaps
    /\ beat[b].pc = "launch"
    /\ s \in beat[b].todo /\ \A o \in beat[b].todo : s <= o
    /\ mishaps' = mishaps + 1
    /\ beat' = [beat EXCEPT ![b] =
                    IF beat[b].todo = {s} THEN BeatIdle
                    ELSE [beat[b] EXCEPT !.todo = beat[b].todo \ {s}]]
    /\ UNCHANGED <<clock, se, req, launches, unmarked>>

Beat(b) ==
    \/ BeatLists(b) \/ BeatMarks(b) \/ BeatLoses(b)
    \/ \E s \in Schedules : BeatLaunches(b, s) \/ BeatSkips(b, s)

Next ==
    \/ \E d \in Jumps : Passes(d)
    \/ \E s \in Schedules : Create(s)
    \/ \E u \in Users : Request(u)
    \/ \E b \in Beats : Beat(b)

ScheduledSpec == Init /\ [][Next]_vars

(* Celery beat keeps starting the task and a started task goes on.         *)
FairScheduled == ScheduledSpec /\ \A b \in Beats : WF_vars(Beat(b))
-----------------------------------------------------------------------------
ScheduleRecords ==
    [status : {"none", "pending", "executed", "cancelled"},
     at : Nat, active : BOOLEAN, next : Nat]

ScheduledTypeOK ==
    /\ clock \in Nat
    /\ se \in [Schedules -> ScheduleRecords]
    /\ beat \in [Beats -> [pc : {"idle", "launch", "mark"},
                          todo : SUBSET Schedules, at : Schedules \cup {0}]]
    /\ req \in [Users -> [op : {"none", "cancel", "executed", "put", "on", "off"},
                         on : Schedules \cup {0}, copy : ScheduleRecords]]
    /\ launches \in [OneTime -> Nat] /\ unmarked \in [OneTime -> Nat]

(* A one-time schedule is launched again by every beat that read it before *)
(* it was marked (the lock of the selection is gone by then), and after a  *)
(* launch that was not recorded; never beyond that, however long the beats *)
(* last and whatever the requests do.                                      *)
LaunchesBounded ==
    \A s \in OneTime : launches[s] <= Cardinality(Beats) + unmarked[s]

(* A one-time schedule that was executed or cancelled is never pending     *)
(* again, whatever copies the requests in flight have read.                *)
SettledForGood ==
    [][\A s \in OneTime :
          se[s].status \in {"executed", "cancelled"} =>
              se'[s].status \in {"executed", "cancelled"}]_vars

(* No beat, request or switch gives an active pattern a date that is not   *)
(* ahead, which the next beat would launch at once.                        *)
ActiveNextAhead ==
    [][\A s \in Recurs :
          se'[s].active /\ (se'[s].next # se[s].next \/ ~se[s].active)
             => se'[s].next > clock]_vars

(* What is due is launched, or moved, stopped or cancelled by somebody.    *)
DueIsServed == \A s \in Schedules : Due(s) ~> ~Due(s)
=============================================================================
