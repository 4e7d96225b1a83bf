---------------------------- MODULE MCScheduled -----------------------------
(* Bounds for the schedules: one of each kind; the clock starts on a       *)
(* Monday, goes by half days and runs past the next date of the pattern.   *)
EXTENDS Scheduled, TLC

MCSchedules == {1, 2}
MCRecurs == {2}
MCDaily == [s \in MCRecurs |-> [type |-> "daily", day |-> 1, minute |-> 600]]
MCJumps == {720}

Cancelled == [NoSchedule EXCEPT !.status = "cancelled"]

(* The schedule alone; the other was cancelled long ago.                   *)
Alone(s) ==
    clock = 0 /\ se = [o \in MCSchedules |-> IF o = s THEN NoSchedule ELSE Cancelled]

(* Both are overdue: no beat has run for a day.                            *)
Overdue ==
    /\ clock = 1440
    /\ se = (1 :> [NoSchedule EXCEPT !.status = "pending", !.at = 720])
         @@ (2 :> [status |-> "pending", at |-> 0, active |-> TRUE, next |-> 600])

MCInit ==
    /\ Alone(1) \/ Alone(2) \/ Overdue
    /\ beat = [b \in Beats |-> BeatIdle] /\ req = [u \in Users |-> NoRequest]
    /\ launches = [s \in OneTime |-> 0] /\ unmarked = [s \in OneTime |-> 0]
    /\ mishaps = 0

MCSpec == MCInit /\ [][Next]_vars /\ \A b \in Beats : WF_vars(Beat(b))
=============================================================================
