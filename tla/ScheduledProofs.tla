-------------------------- MODULE ScheduledProofs ---------------------------
(***************************************************************************)
(* What calculate_next_execution_date returns, for every pattern and every *)
(* minute of the clock, and what the beats and the endpoints keep of it,   *)
(* for every number of schedules, beats and requests.                      *)
(***************************************************************************)
EXTENDS Scheduled, FiniteSetTheorems, TLAPS

(* A minute of the clock is a day and a minute of that day.                *)
LEMMA DayAndMinute ==
    ASSUME NEW d \in Nat, NEW m \in 0 .. Day - 1
    PROVE  /\ d * Day + m \in Nat
           /\ (d * Day + m) \div Day = d
           /\ (d * Day + m) % Day = m
BY DEF Day

LEMMA SplitClock ==
    ASSUME NEW now \in Nat
    PROVE  \E d \in Nat, m \in 0 .. Day - 1 :
              now = d * Day + m /\ now \div Day = d /\ now % Day = m
<1>1. now \div Day \in Nat /\ now % Day \in 0 .. Day - 1
  BY DEF Day
<1>2. now = (now \div Day) * Day + (now % Day)
  BY DEF Day
<1> QED
  BY <1>1, <1>2

(* The days of the week come round, from 1 to 7.                           *)
LEMMA WeekdayRange ==
    ASSUME NEW now \in Nat
    PROVE  IsoWeekday(now) \in 1 .. 7
BY DEF IsoWeekday, Day

(* The day of a pattern is one to seven days away.                         *)
LEMMA DayComesRound ==
    ASSUME NEW now \in Nat, NEW day \in 1 .. 7
    PROVE  /\ DaysAhead(day, now) \in 1 .. 7
           /\ ((now \div Day) + DaysAhead(day, now)) % 7 = day - 1
<1>1. PICK d \in Nat : now \div Day = d
  BY SplitClock
<1> DEFINE a == (day - ((d % 7) + 1)) % 7
<1>2. a \in 0 .. 6
  OBVIOUS
<1>3. (d + a) % 7 = day - 1
  OBVIOUS
<1>4. a = 0 => (d + 7) % 7 = day - 1
  OBVIOUS
<1>5. DaysAhead(day, now) = IF a = 0 THEN 7 ELSE a
  BY <1>1 DEF DaysAhead, IsoWeekday
<1> HIDE DEF a
<1> QED
  BY <1>1, <1>2, <1>3, <1>4, <1>5

LEMMA PatternParts ==
    ASSUME NEW p \in Patterns
    PROVE  /\ p.type \in {"daily", "weekly", "cron"}
           /\ p.day \in 1 .. 7
           /\ p.minute \in 0 .. Day - 1
BY DEF Patterns

(* A daily date is ahead of the clock, at the minute of the pattern and at *)
(* most a day away: no day is left out.                                    *)
THEOREM DailySkipsNoDay ==
    ASSUME NEW p \in Patterns, NEW now \in Nat
    PROVE  /\ Daily(p, now) \in Nat /\ Daily(p, now) > now
           /\ Daily(p, now) % Day = p.minute
           /\ Daily(p, now) <= now + Day
<1>1. PICK d \in Nat, m \in 0 .. Day - 1 :
         now = d * Day + m /\ now \div Day = d
  BY SplitClock
<1>2. PICK k \in 0 .. Day - 1 : k = p.minute
  BY PatternParts
<1>3. PICK e \in {d, d + 1} :
         /\ Daily(p, now) = e * Day + k
         /\ d * Day + k <= now => e = d + 1
         /\ d * Day + k > now => e = d
  <2>1. Daily(p, now) = IF d * Day + k <= now THEN d * Day + k + Day ELSE d * Day + k
    BY <1>1, <1>2 DEF Daily
  <2>2. (d + 1) * Day + k = d * Day + k + Day /\ d * Day + k \in Nat
    BY DEF Day
  <2>3. CASE d * Day + k <= now
    BY <2>1, <2>2, <2>3
  <2>4. CASE d * Day + k > now
    BY <2>1, <2>2, <2>4
  <2> QED
    BY <1>1, <2>2, <2>3, <2>4
<1>4. Daily(p, now) % Day = k /\ Daily(p, now) \in Nat
  <2>1. e \in Nat
    OBVIOUS
  <2> QED
    BY <1>3, <2>1, DayAndMinute
<1>5. Daily(p, now) > now /\ Daily(p, now) <= now + Day
  BY <1>1, <1>3 DEF Day
<1> QED
  BY <1>2, <1>4, <1>5

(* A weekly date is ahead of the clock, on the day of the pattern, at its  *)
(* minute, and less than eight days away.                                  *)
THEOREM WeeklyOnItsDay ==
    ASSUME NEW p \in Patterns, NEW now \in Nat
    PROVE  /\ Weekly(p, now) \in Nat /\ Weekly(p, now) > now
           /\ IsoWeekday(Weekly(p, now)) = p.day
           /\ Weekly(p, now) % Day = p.minute
           /\ Weekly(p, now) < now + 8 * Day
<1>1. PICK d \in Nat, m \in 0 .. Day - 1 :
         now = d * Day + m /\ now \div Day = d
  BY SplitClock
<1>2. PICK k \in 0 .. Day - 1 : k = p.minute
  BY PatternParts
<1>3. PICK a \in 1 .. 7 : a = DaysAhead(p.day, now) /\ (d + a) % 7 = p.day - 1
  <2>1. PICK day \in 1 .. 7 : day = p.day
    BY PatternParts
  <2>2. DaysAhead(day, now) \in 1 .. 7 /\ (d + DaysAhead(day, now)) % 7 = day - 1
    BY <1>1, DayComesRound
  <2> QED
    BY <2>1, <2>2
<1>4. Weekly(p, now) = (d + a) * Day + k
  BY <1>1, <1>2, <1>3 DEF Weekly
<1>5. PICK e \in Nat : e = d + a
  OBVIOUS
<1>6. Weekly(p, now) \in Nat /\ Weekly(p, now) \div Day = e /\ Weekly(p, now) % Day = k
  BY <1>4, <1>5, DayAndMinute
<1>7. IsoWeekday(Weekly(p, now)) = p.day
  BY <1>3, <1>5, <1>6, PatternParts DEF IsoWeekday
<1>8. Weekly(p, now) > now /\ Weekly(p, now) < now + 8 * Day
  BY <1>1, <1>4 DEF Day
<1> QED
  BY <1>2, <1>6, <1>7, <1>8

LEMMA CronAhead ==
    ASSUME NEW k \in Nat \ {0}, NEW now \in Nat
    PROVE  /\ ((now \div k) + 1) * k \in Nat
           /\ ((now \div k) + 1) * k > now
<1>1. PICK q \in Nat, r \in 0 .. k - 1 : now = q * k + r /\ now \div k = q
  <2>1. now = (now \div k) * k + (now % k) /\ now \div k \in Nat /\ now % k \in 0 .. k - 1
    OBVIOUS
  <2> QED
    BY <2>1
<1>2. (q + 1) * k = q * k + k /\ q * k \in Nat
  OBVIOUS
<1> QED
  BY <1>1, <1>2

(* The date is a minute of the clock, and ahead of it, whatever the        *)
(* pattern: a schedule that was just launched is not due again.            *)
THEOREM NextIsAhead ==
    ASSUME NEW p \in Patterns, NEW now \in Nat,
           p.type = "cron" => p.minute > 0
    PROVE  NextDate(p, now) \in Nat /\ NextDate(p, now) > now
<1>1. CASE p.type = "daily"
  BY <1>1, DailySkipsNoDay DEF NextDate
<1>2. CASE p.type = "weekly"
  BY <1>2, WeeklyOnItsDay DEF NextDate
<1>3. CASE p.type = "cron"
  <2>1. PICK k \in 0 .. Day - 1 : k = p.minute
    BY PatternParts
  <2>2. k \in Nat \ {0}
    BY <1>3, <2>1 DEF Day
  <2> QED
    BY <1>3, <2>1, <2>2, CronAhead DEF NextDate, Cron
<1> QED
  BY <1>1, <1>2, <1>3, PatternParts
-----------------------------------------------------------------------------
(* A beat that has launched a schedule does not have it before it any      *)
(* more; a one-time schedule, and every copy of it, has no active pattern, *)
(* and a request is on a schedule that exists, a switch on a pattern.      *)
BeatsApart == \A b \in Beats :
    /\ beat[b].pc = "mark" => beat[b].at \in Schedules /\ beat[b].at \notin beat[b].todo
    /\ beat[b].pc = "idle" => beat[b].todo = {}

OneTimeInactive == \A s \in OneTime : ~se[s].active

RequestsFit == \A u \in Users :
    /\ req[u].op # "none" => req[u].on \in Schedules /\ se[req[u].on].status # "none"
    /\ req[u].op \in {"on", "off"} => req[u].on \in Recurs
    /\ req[u].op # "none" /\ req[u].on \in OneTime => ~req[u].copy.active

(* What a beat has before it or is at exists.                              *)
Met(b) == beat[b].todo \cup (IF beat[b].pc = "mark" THEN {beat[b].at} ELSE {})

BeatsExist == \A b \in Beats : \A o \in Met(b) : se[o].status # "none"

IInv == ScheduledTypeOK /\ BeatsApart /\ BeatsExist /\ OneTimeInactive /\ RequestsFit

LEMMA NextDateFits ==
    ASSUME NEW s \in Recurs, NEW now \in Nat
    PROVE  NextDate(Pattern[s], now) \in Nat /\ NextDate(Pattern[s], now) > now
BY ScheduledAssumption, NextIsAhead

LEMMA Kinds == Recurs \subseteq Schedules /\ OneTime \subseteq Schedules /\ OneTime \cap Recurs = {}
               /\ Schedules = Recurs \cup OneTime
BY ScheduledAssumption DEF OneTime

LEMMA InitHolds == Init => IInv
<1> SUFFICES ASSUME Init PROVE IInv
  OBVIOUS
<1>1. NoSchedule \in ScheduleRecords
  BY DEF NoSchedule, ScheduleRecords
<1>2. ScheduledTypeOK
  BY <1>1 DEF Init, ScheduledTypeOK, BeatIdle, NoRequest
<1>3. BeatsApart /\ BeatsExist /\ OneTimeInactive /\ RequestsFit
  BY Kinds DEF Init, BeatsApart, BeatsExist, Met, OneTimeInactive, RequestsFit, BeatIdle, NoRequest, NoSchedule
<1> QED
  BY <1>2, <1>3 DEF IInv

(* What the clock, a creation and a request leave alone.                   *)
LEMMA CreateKeeps ==
    ASSUME IInv, NEW s \in Schedules, Create(s)
    PROVE  IInv'
<1> USE DEF IInv
<1>1. se' \in [Schedules -> ScheduleRecords]
  <2>1. CASE s \in OneTime /\ \E d \in Jumps \cup {0} :
               se' = [se EXCEPT ![s].status = "pending", ![s].at = clock + d]
    <3>1. PICK d \in Jumps \cup {0} :
             se' = [se EXCEPT ![s].status = "pending", ![s].at = clock + d]
      BY <2>1
    <3>2. clock + d \in Nat /\ se \in [Schedules -> ScheduleRecords]
      BY ScheduledAssumption DEF ScheduledTypeOK
    <3>3. [[se[s] EXCEPT !.status = "pending"] EXCEPT !.at = clock + d] \in ScheduleRecords
      BY <3>2 DEF ScheduleRecords
    <3> QED
      BY <3>1, <3>2, <3>3
  <2>2. CASE s \in Recurs /\ se' = [se EXCEPT ![s] = [status |-> "pending", at |-> 0, active |-> TRUE,
                                                     next |-> NextDate(Pattern[s], clock)]]
    BY <2>2, NextDateFits DEF ScheduledTypeOK, ScheduleRecords
  <2> QED
    BY <2>1, <2>2 DEF Create
<1>2. ScheduledTypeOK'
  BY <1>1 DEF Create, ScheduledTypeOK, ghosts
<1>3. BeatsApart'
  BY DEF Create, BeatsApart
<1>4. OneTimeInactive'
  BY Kinds DEF Create, OneTimeInactive, ScheduledTypeOK, ScheduleRecords
<1>5. RequestsFit'
  <2>1. \A o \in Schedules : se[o].status # "none" => se'[o] = se[o]
    BY DEF Create, ScheduledTypeOK
  <2> QED
    BY <2>1 DEF Create, RequestsFit
<1>6. BeatsExist'
  BY <1>1 DEF Create, BeatsExist, BeatsApart, Met, ScheduledTypeOK
<1> QED
  BY <1>2, <1>3, <1>4, <1>5, <1>6

LEMMA ReadKeeps ==
    ASSUME IInv, NEW u \in Users, NEW s \in Schedules,
           NEW op \in {"cancel", "executed", "put", "on", "off"}, Read(u, s, op)
    PROVE  IInv'
<1> USE DEF IInv
<1>1. ScheduledTypeOK'
  BY DEF Read, ScheduledTypeOK, ghosts
<1>2. BeatsApart' /\ BeatsExist' /\ OneTimeInactive'
  BY DEF Read, BeatsApart, BeatsExist, Met, OneTimeInactive
<1>3. RequestsFit'
  BY DEF Read, RequestsFit, OneTimeInactive, ScheduledTypeOK
<1> QED
  BY <1>1, <1>2, <1>3

(* A write leaves a schedule that fits: what is written is a record, a     *)
(* schedule that exists goes on existing, and only a pattern is active.    *)
LEMMA WriteKeeps ==
    ASSUME IInv, NEW u \in Users, NEW r \in ScheduleRecords,
           req[u].op # "none", r.status # "none",
           req[u].on \in OneTime => ~r.active,
           se' = [se EXCEPT ![req[u].on] = r],
           Answered(u), UNCHANGED <<clock, beat, ghosts>>
    PROVE  IInv'
<1> USE DEF IInv
<1>1. NoRequest \in [op : {"none", "cancel", "executed", "put", "on", "off"},
                     on : Schedules \cup {0}, copy : ScheduleRecords]
  BY DEF NoRequest, NoSchedule, ScheduleRecords
<1>2. ScheduledTypeOK'
  BY <1>1 DEF ScheduledTypeOK, Answered, ghosts
<1>3. BeatsApart' /\ OneTimeInactive'
  BY Kinds DEF BeatsApart, OneTimeInactive, ScheduledTypeOK
<1>4. RequestsFit'
  BY DEF RequestsFit, ScheduledTypeOK, Answered, NoRequest
<1>5. BeatsExist'
  BY DEF BeatsExist, Met, BeatsApart, ScheduledTypeOK
<1> QED
  BY <1>2, <1>3, <1>4, <1>5

(* What each of the four requests writes.                                  *)
LEMMA WritesFit ==
    ASSUME IInv, NEW u \in Users,
           WriteCancelled(u) \/ WriteExecuted(u) \/ WriteDate(u) \/ WriteToggle(u)
    PROVE  \E r \in ScheduleRecords :
              /\ req[u].op # "none" /\ r.status # "none"
              /\ req[u].on \in OneTime => ~r.active
              /\ se' = [se EXCEPT ![req[u].on] = r]
              /\ Answered(u) /\ UNCHANGED <<clock, beat, ghosts>>
              /\ req[u].on \in Recurs /\ r.active
                    /\ (r.next # se[req[u].on].next \/ ~se[req[u].on].active) => r.next > clock
              /\ req[u].on \in OneTime /\ se[req[u].on].status \in {"executed", "cancelled"}
                    => r.status \in {"executed", "cancelled"}
<1> USE DEF IInv
<1> DEFINE s == req[u].on
           old == se[s]
           copy == req[u].copy
<1>1. clock \in Nat /\ copy \in ScheduleRecords
  BY DEF ScheduledTypeOK
<1>2. req[u].op # "none" => s \in Schedules /\ old \in ScheduleRecords /\ old.status # "none"
  BY DEF ScheduledTypeOK, RequestsFit
<1>3. s \in OneTime /\ req[u].op # "none" => ~copy.active /\ ~old.active
  BY DEF RequestsFit, OneTimeInactive
<1>4. req[u].op \in {"on", "off"} => s \in Recurs
  BY DEF RequestsFit
<1>5. s \in Schedules => s \in Recurs \/ s \in OneTime
  BY Kinds
<1>6. s \in Recurs => NextDate(Pattern[s], clock) \in Nat /\ NextDate(Pattern[s], clock) > clock
  BY <1>1, NextDateFits
<1>7. s \in Recurs => s \notin OneTime
  BY Kinds
<1>8. CASE WriteCancelled(u)
  <2> DEFINE r == [copy EXCEPT !.status = "cancelled", !.active = FALSE]
  <2>1. r \in ScheduleRecords /\ r.status = "cancelled" /\ r.active = FALSE
    BY <1>1 DEF ScheduleRecords
  <2>2. /\ se' = [se EXCEPT ![s] = r] /\ req[u].op = "cancel"
        /\ Answered(u) /\ UNCHANGED <<clock, beat, ghosts>>
    BY <1>8 DEF WriteCancelled
  <2> HIDE DEF r
  <2> QED
    BY <2>1, <2>2
<1>9. CASE WriteExecuted(u)
  <2> DEFINE p == [old EXCEPT !.status = "pending", !.next = NextDate(Pattern[s], clock)]
             e == [old EXCEPT !.status = "executed"]
  <2>1. req[u].op = "executed" /\ Answered(u) /\ UNCHANGED <<clock, beat, ghosts>>
    BY <1>9 DEF WriteExecuted
  <2>2. CASE copy.active
    <3>1. s \in Recurs /\ s \notin OneTime
      BY <1>2, <1>3, <1>5, <1>7, <2>1, <2>2
    <3>2. p \in ScheduleRecords /\ p.status = "pending" /\ p.next > clock
      BY <1>2, <1>6, <2>1, <3>1 DEF ScheduleRecords
    <3>3. se' = [se EXCEPT ![s] = p]
      BY <1>2, <1>9, <2>1, <2>2 DEF WriteExecuted, ScheduledTypeOK
    <3> HIDE DEF p
    <3> QED
      BY <2>1, <3>1, <3>2, <3>3
  <2>3. CASE ~copy.active
    <3>1. e \in ScheduleRecords /\ e.status = "executed" /\ e.active = old.active /\ e.next = old.next
      BY <1>2, <2>1 DEF ScheduleRecords
    <3>2. se' = [se EXCEPT ![s] = e]
      BY <1>2, <1>9, <2>1, <2>3 DEF WriteExecuted, ScheduledTypeOK
    <3>3. s \in OneTime => ~e.active
      BY <1>3, <2>1, <3>1
    <3> HIDE DEF e
    <3> QED
      BY <2>1, <3>1, <3>2, <3>3
  <2> QED
    BY <2>2, <2>3
<1>10. CASE WriteDate(u)
  <2>1. PICK d \in Jumps :
           se' = [se EXCEPT ![s] = IF s \in Recurs THEN [@ EXCEPT !.next = clock + d]
                                                   ELSE [@ EXCEPT !.at = clock + d]]
    BY <1>10 DEF WriteDate
  <2>2. req[u].op = "put" /\ Answered(u) /\ UNCHANGED <<clock, beat, ghosts>>
    BY <1>10 DEF WriteDate
  <2>3. clock + d \in Nat /\ clock + d > clock
    BY <1>1, ScheduledAssumption
  <2> DEFINE n == [old EXCEPT !.next = clock + d]
             a == [old EXCEPT !.at = clock + d]
  <2>4. CASE s \in Recurs
    <3>1. n \in ScheduleRecords /\ n.status # "none" /\ n.next > clock
      BY <1>2, <2>2, <2>3 DEF ScheduleRecords
    <3>2. se' = [se EXCEPT ![s] = n]
      BY <1>2, <2>1, <2>2, <2>4 DEF ScheduledTypeOK
    <3> HIDE DEF n
    <3> QED
      BY <1>7, <2>2, <2>4, <3>1, <3>2
  <2>5. CASE s \notin Recurs
    <3>1. a \in ScheduleRecords /\ a.status = old.status /\ a.active = old.active
      BY <1>2, <2>2, <2>3 DEF ScheduleRecords
    <3>2. se' = [se EXCEPT ![s] = a]
      BY <1>2, <2>1, <2>2, <2>5 DEF ScheduledTypeOK
    <3>3. s \in OneTime => ~a.active
      BY <1>3, <2>2, <3>1
    <3>4. a.status # "none"
      BY <1>2, <2>2, <3>1
    <3> HIDE DEF a
    <3> QED
      BY <2>2, <2>5, <3>1, <3>2, <3>3, <3>4
  <2> QED
    BY <2>4, <2>5
<1>11. CASE WriteToggle(u)
  <2> DEFINE next == IF req[u].op = "on" THEN NextDate(Pattern[s], clock) ELSE copy.next
             r == [old EXCEPT !.active = req[u].op = "on", !.next = next]
  <2>1. req[u].op \in {"on", "off"} /\ Answered(u) /\ UNCHANGED <<clock, beat, ghosts>>
    BY <1>11 DEF WriteToggle
  <2>2. s \in Recurs /\ s \notin OneTime
    BY <1>4, <1>7, <2>1
  <2>3. next \in Nat /\ (req[u].op = "on" => next > clock)
    BY <1>1, <1>6, <2>2 DEF ScheduleRecords
  <2>4. se' = [se EXCEPT ![s] = r]
    BY <1>2, <1>11, <2>1 DEF WriteToggle, ScheduledTypeOK
  <2> HIDE DEF next
  <2>5. r \in ScheduleRecords /\ r.status = old.status /\ r.next = next /\ (r.active <=> req[u].op = "on")
    BY <1>2, <2>1, <2>3 DEF ScheduleRecords
  <2>6. r.status # "none"
    BY <1>2, <2>1, <2>5
  <2> HIDE DEF r
  <2> QED
    BY <2>1, <2>2, <2>3, <2>4, <2>5, <2>6
<1> QED
  BY <1>8, <1>9, <1>10, <1>11

(* A beat writes records too, and makes nothing pending that was not.      *)
LEMMA MarksFit ==
    ASSUME IInv, NEW b \in Beats, BeatMarks(b)
    PROVE  \E r \in ScheduleRecords :
              LET s == beat[b].at
              IN  /\ s \in Schedules
                  /\ se' = [se EXCEPT ![s] = r]
                  /\ s \in OneTime => ~r.active
                  /\ s \in Recurs => r.status = se[s].status /\ r.next > clock
                  /\ s \in OneTime => r.status # "pending"
                  /\ r.status = "none" <=> se[s].status = "none"
                  /\ se[s].status \in {"executed", "cancelled"} => r.status = se[s].status
<1> USE DEF IInv
<1> DEFINE s == beat[b].at
           old == se[s]
<1>1. s \in Schedules /\ old \in ScheduleRecords /\ clock \in Nat
  BY DEF BeatMarks, BeatsApart, ScheduledTypeOK
<1>2. CASE s \in Recurs
  <2> DEFINE r == [old EXCEPT !.next = NextDate(Pattern[s], clock)]
  <2>1. NextDate(Pattern[s], clock) \in Nat /\ NextDate(Pattern[s], clock) > clock
    BY <1>1, <1>2, NextDateFits
  <2>2. r \in ScheduleRecords /\ r.status = old.status /\ r.next > clock
    BY <1>1, <2>1 DEF ScheduleRecords
  <2>3. se' = [se EXCEPT ![s] = r]
    BY <1>1, <1>2 DEF BeatMarks, ScheduledTypeOK
  <2> HIDE DEF r
  <2> QED
    BY <1>1, <1>2, <2>2, <2>3, Kinds
<1>3. CASE s \notin Recurs
  <2> DEFINE r == [old EXCEPT !.status = IF old.status = "pending" THEN "executed" ELSE old.status]
  <2>1. r \in ScheduleRecords /\ r.active = old.active
        /\ r.status = (IF old.status = "pending" THEN "executed" ELSE old.status)
    BY <1>1 DEF ScheduleRecords
  <2>2. se' = [se EXCEPT ![s] = r]
    <3>1. old.status # "pending" => r = old
      BY <1>1 DEF ScheduleRecords
    <3> QED
      BY <1>1, <1>3, <3>1 DEF BeatMarks, ScheduledTypeOK
  <2>3. s \in OneTime => ~old.active
    BY DEF OneTimeInactive
  <2> HIDE DEF r
  <2> QED
    BY <1>1, <1>3, <2>1, <2>2, <2>3
<1> QED
  BY <1>2, <1>3

LEMMA BeatKeeps ==
    ASSUME IInv, NEW b \in Beats, Beat(b)
    PROVE  IInv'
<1> USE DEF IInv
<1> DEFINE BeatRecords == [pc : {"idle", "launch", "mark"}, todo : SUBSET Schedules, at : Schedules \cup {0}]
<1> DEFINE Fewer(now) == \A c \in Beats : \A o \in Met(c)' : o \in Met(c) \/ now[o].status # "none"
<1>1. BeatIdle \in BeatRecords /\ BeatIdle.pc = "idle" /\ BeatIdle.todo = {}
  BY DEF BeatIdle
<1>2. beat \in [Beats -> BeatRecords]
  BY DEF ScheduledTypeOK
<1>3. ASSUME NEW r \in BeatRecords, beat' = [beat EXCEPT ![b] = r],
             r.pc = "mark" => r.at \in Schedules /\ r.at \notin r.todo,
             r.pc = "idle" => r.todo = {}
      PROVE  /\ beat' \in [Beats -> BeatRecords] /\ BeatsApart'
             /\ beat'[b] = r /\ \A o \in Beats : o # b => beat'[o] = beat[o]
  BY <1>2, <1>3 DEF BeatsApart
<1>4. ASSUME beat[b].pc = "mark", GoesOn(b)
      PROVE  beat' \in [Beats -> BeatRecords] /\ BeatsApart' /\ Fewer(se)
  <2> DEFINE r == [[beat[b] EXCEPT !.pc = "launch"] EXCEPT !.at = 0]
  <2>1. r \in BeatRecords /\ r.pc = "launch" /\ r.todo = beat[b].todo
    BY <1>2
  <2>2. beat' = [beat EXCEPT ![b] = BeatIdle] \/ beat' = [beat EXCEPT ![b] = r]
    BY <1>2, <1>4 DEF GoesOn
  <2> HIDE DEF r
  <2> QED
    BY <1>1, <1>3, <2>1, <2>2 DEF Met
<1>5. CASE BeatLists(b)
  <2>1. beat' \in [Beats -> BeatRecords] /\ BeatsApart' /\ Fewer(se)
    <3> DEFINE r == [pc |-> "launch", todo |-> {s \in Schedules : Due(s)}, at |-> 0]
    <3>1. r \in BeatRecords /\ r.pc = "launch" /\ \A o \in r.todo : se[o].status # "none"
      BY DEF Due
    <3>2. beat' = [beat EXCEPT ![b] = r]
      BY <1>5 DEF BeatLists
    <3> HIDE DEF r
    <3> QED
      BY <1>3, <3>1, <3>2 DEF Met
  <2> QED
    BY <1>5, <2>1 DEF BeatsExist, BeatLists, ScheduledTypeOK, OneTimeInactive, RequestsFit, ghosts
<1>6. ASSUME NEW s \in Schedules, BeatLaunches(b, s) PROVE IInv'
  <2>1. beat' \in [Beats -> BeatRecords] /\ BeatsApart' /\ Fewer(se)
    <3> DEFINE r == [pc |-> "mark", todo |-> beat[b].todo \ {s}, at |-> s]
    <3>1. /\ r \in BeatRecords /\ r.pc = "mark" /\ r.at = s /\ s \notin r.todo
          /\ r.todo \subseteq beat[b].todo /\ s \in beat[b].todo
      BY <1>2, <1>6 DEF BeatLaunches
    <3>2. beat' = [beat EXCEPT ![b] = r]
      BY <1>2, <1>6 DEF BeatLaunches
    <3> HIDE DEF r
    <3> QED
      BY <1>3, <3>1, <3>2 DEF Met
  <2>2. launches' \in [OneTime -> Nat]
    BY <1>6 DEF BeatLaunches, ScheduledTypeOK
  <2> QED
    BY <1>6, <2>1, <2>2 DEF BeatsExist, BeatLaunches, ScheduledTypeOK, OneTimeInactive, RequestsFit
<1>7. CASE BeatMarks(b)
  <2>1. beat' \in [Beats -> BeatRecords] /\ BeatsApart' /\ Fewer(se)
    BY <1>4, <1>7 DEF BeatMarks
  <2>2. PICK r \in ScheduleRecords :
           /\ beat[b].at \in Schedules
           /\ se' = [se EXCEPT ![beat[b].at] = r]
           /\ beat[b].at \in OneTime => ~r.active
           /\ r.status = "none" <=> se[beat[b].at].status = "none"
    BY <1>7, MarksFit
  <2>3. UNCHANGED <<clock, req, ghosts>>
    BY <1>7 DEF BeatMarks
  <2>4. ScheduledTypeOK'
    BY <2>1, <2>2, <2>3 DEF ScheduledTypeOK, ghosts
  <2>5. OneTimeInactive'
    BY <2>2, Kinds DEF OneTimeInactive, ScheduledTypeOK
  <2>6. RequestsFit'
    BY <2>2, <2>3 DEF RequestsFit, ScheduledTypeOK
  <2>7. BeatsExist'
    <3> SUFFICES ASSUME NEW c \in Beats, NEW o \in Met(c)' PROVE se'[o].status # "none"
      BY DEF BeatsExist
    <3>1. se[o].status # "none"
      BY <2>1 DEF BeatsExist
    <3> QED
      BY <2>2, <3>1 DEF ScheduledTypeOK
  <2> QED
    BY <2>1, <2>4, <2>5, <2>6, <2>7
<1>8. CASE BeatLoses(b)
  <2>1. beat' \in [Beats -> BeatRecords] /\ BeatsApart' /\ Fewer(se)
    <3>1. beat[b].pc = "mark" /\ (GoesOn(b) \/ beat' = [beat EXCEPT ![b] = BeatIdle])
      BY <1>8 DEF BeatLoses
    <3> QED
      BY <1>1, <1>3, <1>4, <3>1 DEF Met
  <2>2. unmarked' \in [OneTime -> Nat]
    BY <1>8 DEF BeatLoses, ScheduledTypeOK
  <2> QED
    BY <1>8, <2>1, <2>2 DEF BeatsExist, BeatLoses, ScheduledTypeOK, OneTimeInactive, RequestsFit
<1>9. ASSUME NEW s \in Schedules, BeatSkips(b, s) PROVE IInv'
  <2>1. beat' \in [Beats -> BeatRecords] /\ BeatsApart' /\ Fewer(se)
    <3> DEFINE r == [beat[b] EXCEPT !.todo = beat[b].todo \ {s}]
    <3>1. r \in BeatRecords /\ r.pc = "launch" /\ r.todo \subseteq beat[b].todo
      BY <1>2, <1>9 DEF BeatSkips
    <3>2. beat' = [beat EXCEPT ![b] = BeatIdle] \/ beat' = [beat EXCEPT ![b] = r]
      <4>1. CASE beat[b].todo = {s}
        BY <1>2, <1>9, <4>1 DEF BeatSkips
      <4>2. CASE beat[b].todo # {s}
        BY <1>2, <1>9, <4>2 DEF BeatSkips
      <4> QED
        BY <4>1, <4>2
    <3> HIDE DEF r
    <3> QED
      BY <1>1, <1>3, <3>1, <3>2 DEF Met
  <2> QED
    BY <1>9, <2>1 DEF BeatsExist, BeatSkips, ScheduledTypeOK, OneTimeInactive, RequestsFit
<1> QED
  BY <1>5, <1>6, <1>7, <1>8, <1>9 DEF Beat

LEMMA NextKeeps == IInv /\ [Next]_vars => IInv'
<1> SUFFICES ASSUME IInv, [Next]_vars PROVE IInv'
  OBVIOUS
<1>1. ASSUME NEW d \in Jumps, Passes(d) PROVE IInv'
  <2>1. clock + d \in Nat
    BY ScheduledAssumption DEF IInv, ScheduledTypeOK
  <2> QED
    BY <1>1, <2>1 DEF Passes, IInv, ScheduledTypeOK, BeatsApart, BeatsExist, Met, OneTimeInactive, RequestsFit, ghosts
<1>2. ASSUME NEW u \in Users, Request(u) PROVE IInv'
  <2>1. CASE \E s \in Schedules, op \in {"cancel", "executed", "put", "on", "off"} : Read(u, s, op)
    BY <2>1, ReadKeeps
  <2>2. CASE WriteCancelled(u) \/ WriteExecuted(u) \/ WriteDate(u) \/ WriteToggle(u)
    BY <2>2, WritesFit, WriteKeeps
  <2> QED
    BY <1>2, <2>1, <2>2 DEF Request
<1>3. CASE UNCHANGED vars
  BY <1>3 DEF vars, IInv, ScheduledTypeOK, BeatsApart, BeatsExist, Met, OneTimeInactive, RequestsFit, ghosts
<1> QED
  BY <1>1, <1>2, <1>3, CreateKeeps, BeatKeeps DEF Next

LEMMA Invariance == ScheduledSpec => []IInv
BY InitHolds, NextKeeps, PTL DEF ScheduledSpec

(* Every schedule, copy and beat has the fields its kind has.              *)
THEOREM ScheduledTypeCorrect == ScheduledSpec => []ScheduledTypeOK
<1>1. IInv => ScheduledTypeOK
  BY DEF IInv
<1> QED
  BY <1>1, Invariance, PTL

(* A step changes at most what one actor does.                             *)
LEMMA StepKinds ==
    ASSUME IInv, [Next]_vars
    PROVE  \/ se' = se
           \/ \E s \in Schedules : Create(s)
           \/ \E u \in Users : WriteCancelled(u) \/ WriteExecuted(u) \/ WriteDate(u) \/ WriteToggle(u)
           \/ \E b \in Beats : BeatMarks(b)
<1>1. CASE \E d \in Jumps : Passes(d)
  BY <1>1 DEF Passes
<1>2. CASE \E u \in Users : Request(u)
  BY <1>2 DEF Request, Read
<1>3. CASE \E b \in Beats : Beat(b)
  BY <1>3 DEF Beat, BeatLists, BeatLaunches, BeatLoses, BeatSkips
<1>4. CASE UNCHANGED vars
  BY <1>4 DEF vars
<1> QED
  BY <1>1, <1>2, <1>3, <1>4 DEF Next

(* What was executed or cancelled is never pending again, whatever copies  *)
(* the requests in flight have read.                                       *)
LEMMA SettledStep ==
    ASSUME IInv, [Next]_vars, NEW s \in OneTime, se[s].status \in {"executed", "cancelled"}
    PROVE  se'[s].status \in {"executed", "cancelled"}
<1>1. s \in Schedules /\ s \notin Recurs /\ se \in [Schedules -> ScheduleRecords]
  BY Kinds DEF IInv, ScheduledTypeOK
<1>2. ASSUME NEW o \in Schedules, Create(o) PROVE se'[s] = se[s]
  BY <1>1, <1>2 DEF Create
<1>3. ASSUME NEW u \in Users,
             WriteCancelled(u) \/ WriteExecuted(u) \/ WriteDate(u) \/ WriteToggle(u)
      PROVE  se'[s].status \in {"executed", "cancelled"}
  <2>1. PICK r \in ScheduleRecords :
           /\ se' = [se EXCEPT ![req[u].on] = r]
           /\ req[u].on \in OneTime /\ se[req[u].on].status \in {"executed", "cancelled"}
                 => r.status \in {"executed", "cancelled"}
    BY <1>3, WritesFit
  <2> QED
    BY <1>1, <2>1
<1>4. ASSUME NEW b \in Beats, BeatMarks(b)
      PROVE  se'[s].status \in {"executed", "cancelled"}
  <2>1. PICK r \in ScheduleRecords :
           /\ se' = [se EXCEPT ![beat[b].at] = r]
           /\ se[beat[b].at].status \in {"executed", "cancelled"} => r.status = se[beat[b].at].status
    BY <1>4, MarksFit
  <2> QED
    BY <1>1, <2>1
<1> QED
  BY <1>2, <1>3, <1>4, StepKinds

(* A one-time schedule that was executed or cancelled is never pending     *)
(* again, whichever beat or request still holds an older copy of it.       *)
THEOREM SettledOnce == ScheduledSpec => SettledForGood
<1>1. IInv /\ [Next]_vars => [\A s \in OneTime :
          se[s].status \in {"executed", "cancelled"} =>
              se'[s].status \in {"executed", "cancelled"}]_vars
  BY SettledStep
<1> QED
  BY <1>1, Invariance, PTL DEF ScheduledSpec, SettledForGood

(* No step gives an active pattern a date that is not ahead.               *)
LEMMA AheadStep ==
    ASSUME IInv, [Next]_vars, NEW s \in Recurs,
           se'[s].active, se'[s].next # se[s].next \/ ~se[s].active
    PROVE  se'[s].next > clock
<1>1. s \in Schedules /\ s \notin OneTime /\ se \in [Schedules -> ScheduleRecords] /\ clock \in Nat
  BY Kinds DEF IInv, ScheduledTypeOK
<1>2. ASSUME NEW o \in Schedules, Create(o) PROVE se'[s].next > clock
  <2>1. CASE o = s
    BY <1>1, <1>2, <2>1, NextDateFits DEF Create, ScheduleRecords
  <2>2. CASE o # s
    BY <1>1, <1>2, <2>2 DEF Create
  <2> QED
    BY <2>1, <2>2
<1>3. ASSUME NEW u \in Users,
             WriteCancelled(u) \/ WriteExecuted(u) \/ WriteDate(u) \/ WriteToggle(u)
      PROVE  se'[s].next > clock
  <2>1. PICK r \in ScheduleRecords :
           /\ se' = [se EXCEPT ![req[u].on] = r]
           /\ req[u].on \in Recurs /\ r.active
                 /\ (r.next # se[req[u].on].next \/ ~se[req[u].on].active) => r.next > clock
    BY <1>3, WritesFit
  <2> QED
    BY <1>1, <2>1
<1>4. ASSUME NEW b \in Beats, BeatMarks(b)
      PROVE  se'[s].next > clock
  <2>1. PICK r \in ScheduleRecords :
           /\ se' = [se EXCEPT ![beat[b].at] = r]
           /\ beat[b].at \in Recurs => r.status = se[beat[b].at].status /\ r.next > clock
    BY <1>4, MarksFit
  <2> QED
    BY <1>1, <2>1
<1> QED
  BY <1>2, <1>3, <1>4, StepKinds

(* A date that a beat, a request or a switch gives an active pattern is    *)
(* ahead of the clock.                                                     *)
THEOREM NeverDatedBack == ScheduledSpec => ActiveNextAhead
<1>1. IInv /\ [Next]_vars => [\A s \in Recurs :
          se'[s].active /\ (se'[s].next # se[s].next \/ ~se[s].active)
             => se'[s].next > clock]_vars
  BY AheadStep
<1> QED
  BY <1>1, Invariance, PTL DEF ScheduledSpec, ActiveNextAhead
-----------------------------------------------------------------------------
(* The beats that account for the launches of s: those that are at it      *)
(* while it is pending; once it is settled, those that will not come to it *)
(* any more.                                                               *)
Settled(s) == se[s].status \in {"executed", "cancelled"}

Counted(s) ==
    {b \in Beats : IF Settled(s) THEN s \notin beat[b].todo
                                ELSE beat[b].pc = "mark" /\ beat[b].at = s}

Account == \A s \in OneTime : launches[s] <= unmarked[s] + Cardinality(Counted(s))

LEMMA CountedFinite ==
    ASSUME NEW S, S \subseteq Beats
    PROVE  IsFiniteSet(S) /\ Cardinality(S) \in Nat /\ Cardinality(S) <= Cardinality(Beats)
BY ScheduledAssumption, FS_Subset, FS_CardinalityType

LEMMA CountMore ==
    ASSUME NEW S, NEW T, S \subseteq T, T \subseteq Beats
    PROVE  Cardinality(S) <= Cardinality(T)
BY CountedFinite, FS_Subset

LEMMA CountOneMore ==
    ASSUME NEW S, NEW T, NEW b, b \notin S, S \cup {b} \subseteq T, T \subseteq Beats
    PROVE  Cardinality(S) + 1 <= Cardinality(T)
<1>1. IsFiniteSet(S) /\ Cardinality(S \cup {b}) = Cardinality(S) + 1
  BY CountedFinite, FS_AddElement
<1> QED
  BY <1>1, CountMore

LEMMA CountOneLess ==
    ASSUME NEW S, NEW T, NEW b, S \subseteq Beats, T \subseteq Beats, S \ {b} \subseteq T
    PROVE  Cardinality(S) <= Cardinality(T) + 1
<1>1. CASE b \in S
  <2>1. Cardinality(S \ {b}) = Cardinality(S) - 1 /\ Cardinality(S) \in Nat
    BY <1>1, CountedFinite, FS_RemoveElement
  <2> QED
    BY <2>1, CountMore, CountedFinite
<1>2. CASE b \notin S
  <2>1. S \subseteq T
    BY <1>2
  <2> QED
    BY <2>1, CountMore, CountedFinite
<1> QED
  BY <1>1, <1>2

LEMMA InitAccount == Init => Account
<1> SUFFICES ASSUME Init, NEW s \in OneTime
             PROVE  launches[s] <= unmarked[s] + Cardinality(Counted(s))
  BY DEF Account
<1>1. Cardinality(Counted(s)) \in Nat
  BY CountedFinite DEF Counted
<1> QED
  BY <1>1 DEF Init

(* A schedule that is not launched or lost keeps its account when nobody   *)
(* who counts stops to count.                                              *)
LEMMA AccountGrows ==
    ASSUME IInv, Account, NEW s \in OneTime,
           launches'[s] = launches[s], unmarked'[s] = unmarked[s],
           Counted(s) \subseteq Counted(s)'
    PROVE  launches'[s] <= unmarked'[s] + Cardinality(Counted(s)')
<1>1. Cardinality(Counted(s)) <= Cardinality(Counted(s)')
  BY CountMore DEF Counted
<1>2. Cardinality(Counted(s)) \in Nat /\ Cardinality(Counted(s)') \in Nat
  BY CountedFinite DEF Counted
<1> QED
  BY <1>1, <1>2 DEF Account, IInv, ScheduledTypeOK

(* While the beats stand still a schedule may only become settled: those   *)
(* at it do not have it before them.                                       *)
LEMMA AccountAside ==
    ASSUME IInv, Account, [Next]_vars, UNCHANGED <<beat, launches, unmarked>>
    PROVE  Account'
<1> SUFFICES ASSUME NEW s \in OneTime
             PROVE  launches'[s] <= unmarked'[s] + Cardinality(Counted(s)')
  BY DEF Account
<1>1. Settled(s) => Settled(s)'
  BY SettledStep DEF Settled
<1>2. Counted(s) \subseteq Counted(s)'
  BY <1>1 DEF Counted, IInv, BeatsApart
<1> QED
  BY <1>2, AccountGrows

(* A beat goes on, having settled what it was at: it counts as before.     *)
LEMMA AccountMarks ==
    ASSUME IInv, Account, [Next]_vars, NEW b \in Beats, BeatMarks(b)
    PROVE  Account'
<1> SUFFICES ASSUME NEW s \in OneTime
             PROVE  launches'[s] <= unmarked'[s] + Cardinality(Counted(s)')
  BY DEF Account
<1>1. launches' = launches /\ unmarked' = unmarked /\ GoesOn(b) /\ beat[b].pc = "mark"
  BY DEF BeatMarks, ghosts
<1>2. \A o \in Beats : o # b => beat'[o] = beat[o]
  BY <1>1 DEF GoesOn, IInv, ScheduledTypeOK
<1>3. beat'[b].todo = beat[b].todo
  BY <1>1 DEF GoesOn, IInv, ScheduledTypeOK, BeatIdle
<1>4. Settled(s) => Settled(s)'
  BY SettledStep DEF Settled
<1>5. beat[b].at = s /\ se[s].status = "pending" => Settled(s)'
  <2>1. PICK r \in ScheduleRecords :
           /\ se' = [se EXCEPT ![beat[b].at] = r]
           /\ beat[b].at \in OneTime => r.status # "pending"
           /\ r.status = "none" <=> se[beat[b].at].status = "none"
    BY MarksFit
  <2> QED
    BY <2>1, Kinds DEF Settled, IInv, ScheduledTypeOK, ScheduleRecords
<1>6. CASE beat[b].at = s
  <2>1. se[s].status # "none" /\ se \in [Schedules -> ScheduleRecords] /\ s \in Schedules
    BY <1>1, <1>6, Kinds DEF IInv, BeatsExist, Met, ScheduledTypeOK
  <2>2. Settled(s)'
    BY <1>4, <1>5, <1>6, <2>1 DEF Settled, ScheduleRecords
  <2>3. s \notin beat'[b].todo
    BY <1>1, <1>3, <1>6 DEF IInv, BeatsApart
  <2>4. Counted(s) \subseteq Counted(s)'
    BY <1>2, <2>2, <2>3 DEF Counted, IInv, BeatsApart
  <2> QED
    BY <1>1, <2>4, AccountGrows
<1>7. CASE beat[b].at # s
  <2>1. Counted(s) \subseteq Counted(s)'
    <3> SUFFICES ASSUME NEW c \in Counted(s) PROVE c \in Counted(s)'
      OBVIOUS
    <3>1. CASE Settled(s)
      BY <1>2, <1>3, <1>4, <3>1 DEF Counted
    <3>2. CASE ~Settled(s)
      BY <1>2, <1>7, <3>2 DEF Counted, IInv, BeatsApart
    <3> QED
      BY <3>1, <3>2
  <2> QED
    BY <1>1, <2>1, AccountGrows
<1> QED
  BY <1>6, <1>7

(* A launch is made by a beat that counts from now on and did not before.  *)
LEMMA AccountLaunches ==
    ASSUME IInv, Account, NEW b \in Beats, NEW o \in Schedules, BeatLaunches(b, o)
    PROVE  Account'
<1> SUFFICES ASSUME NEW s \in OneTime
             PROVE  launches'[s] <= unmarked'[s] + Cardinality(Counted(s)')
  BY DEF Account
<1>1. /\ \A c \in Beats : c # b => beat'[c] = beat[c]
      /\ beat'[b] = [pc |-> "mark", todo |-> beat[b].todo \ {o}, at |-> o]
      /\ beat[b].pc = "launch" /\ o \in beat[b].todo
      /\ se' = se /\ unmarked' = unmarked
      /\ launches'[s] = launches[s] + IF s = o THEN 1 ELSE 0
  BY DEF BeatLaunches, IInv, ScheduledTypeOK
<1>2. Settled(s)' <=> Settled(s)
  BY <1>1 DEF Settled
<1>3. CASE s = o
  <2>1. b \notin Counted(s) /\ Counted(s) \cup {b} \subseteq Counted(s)'
    BY <1>1, <1>2, <1>3 DEF Counted
  <2>2. Cardinality(Counted(s)) + 1 <= Cardinality(Counted(s)')
    BY <2>1, CountOneMore DEF Counted
  <2>3. Cardinality(Counted(s)) \in Nat /\ Cardinality(Counted(s)') \in Nat
    BY CountedFinite DEF Counted
  <2> QED
    BY <1>1, <1>3, <2>2, <2>3 DEF Account, IInv, ScheduledTypeOK
<1>4. CASE s # o
  <2>1. Counted(s) \subseteq Counted(s)'
    BY <1>1, <1>2, <1>4 DEF Counted
  <2>2. launches'[s] = launches[s] /\ unmarked'[s] = unmarked[s]
    BY <1>1, <1>4 DEF IInv, ScheduledTypeOK
  <2> QED
    BY <2>1, <2>2, AccountGrows
<1> QED
  BY <1>3, <1>4

(* A launch that is not recorded is one that no beat accounts for.         *)
LEMMA AccountLoses ==
    ASSUME IInv, Account, NEW b \in Beats, BeatLoses(b)
    PROVE  Account'
<1> SUFFICES ASSUME NEW s \in OneTime
             PROVE  launches'[s] <= unmarked'[s] + Cardinality(Counted(s)')
  BY DEF Account
<1>1. /\ \A c \in Beats : c # b => beat'[c] = beat[c]
      /\ beat'[b].todo \subseteq beat[b].todo
  <2>1. CASE GoesOn(b)
    BY <2>1 DEF GoesOn, IInv, ScheduledTypeOK, BeatIdle
  <2>2. CASE beat' = [beat EXCEPT ![b] = BeatIdle]
    BY <2>2 DEF IInv, ScheduledTypeOK, BeatIdle
  <2> QED
    BY <2>1, <2>2 DEF BeatLoses
<1>2. /\ se' = se /\ launches' = launches
      /\ unmarked'[s] = unmarked[s] + IF s = beat[b].at THEN 1 ELSE 0
  BY DEF BeatLoses
<1>3. Settled(s)' <=> Settled(s)
  BY <1>2 DEF Settled
<1>4. CASE s = beat[b].at
  <2>1. Counted(s) \ {b} \subseteq Counted(s)'
    BY <1>1, <1>3 DEF Counted
  <2>2. Cardinality(Counted(s)) <= Cardinality(Counted(s)') + 1
    BY <2>1, CountOneLess DEF Counted
  <2>3. Cardinality(Counted(s)) \in Nat /\ Cardinality(Counted(s)') \in Nat
    BY CountedFinite DEF Counted
  <2> QED
    BY <1>2, <1>4, <2>2, <2>3 DEF Account, IInv, ScheduledTypeOK
<1>5. CASE s # beat[b].at
  <2>1. Counted(s) \subseteq Counted(s)'
    BY <1>1, <1>3, <1>5 DEF Counted
  <2>2. launches'[s] = launches[s] /\ unmarked'[s] = unmarked[s]
    BY <1>2, <1>5 DEF IInv, ScheduledTypeOK
  <2> QED
    BY <2>1, <2>2, AccountGrows
<1> QED
  BY <1>4, <1>5

(* Neither a listing nor a failed launch takes a beat out of the account.  *)
LEMMA AccountListsSkips ==
    ASSUME IInv, Account, NEW b \in Beats,
           BeatLists(b) \/ \E o \in Schedules : BeatSkips(b, o)
    PROVE  Account'
<1> SUFFICES ASSUME NEW s \in OneTime
             PROVE  launches'[s] <= unmarked'[s] + Cardinality(Counted(s)')
  BY DEF Account
<1>1. /\ \A c \in Beats : c # b => beat'[c] = beat[c]
      /\ se' = se /\ launches' = launches /\ unmarked' = unmarked
      /\ beat[b].pc # "mark"
  BY DEF BeatLists, BeatSkips, BeatIdle, IInv, ScheduledTypeOK, ghosts
<1>2. Settled(s)' <=> Settled(s)
  BY <1>1 DEF Settled
<1>3. Settled(s) /\ s \notin beat[b].todo => s \notin beat'[b].todo
  <2>1. CASE BeatLists(b)
    BY <2>1, Kinds DEF BeatLists, Due, Settled, IInv, ScheduledTypeOK
  <2>2. ASSUME NEW o \in Schedules, BeatSkips(b, o)
        PROVE  beat'[b].todo \subseteq beat[b].todo
    <3>1. CASE beat[b].todo = {o}
      BY <2>2, <3>1 DEF BeatSkips, BeatIdle, IInv, ScheduledTypeOK
    <3>2. CASE beat[b].todo # {o}
      BY <2>2, <3>2 DEF BeatSkips, IInv, ScheduledTypeOK
    <3> QED
      BY <3>1, <3>2
  <2> QED
    BY <2>1, <2>2
<1>4. Counted(s) \subseteq Counted(s)'
  BY <1>1, <1>2, <1>3 DEF Counted
<1> QED
  BY <1>1, <1>4, AccountGrows

(* Launches of a one-time schedule stay within the beats there are and the *)
(* launches that were not recorded.                                        *)
THEOREM LaunchesStayBounded == ScheduledSpec => []LaunchesBounded
<1>1. IInv /\ Account /\ [Next]_vars => Account'
  <2> SUFFICES ASSUME IInv, Account, [Next]_vars PROVE Account'
    OBVIOUS
  <2>1. ASSUME NEW b \in Beats, Beat(b) PROVE Account'
    BY <2>1, AccountListsSkips, AccountLaunches, AccountMarks, AccountLoses DEF Beat
  <2>2. ASSUME NEW d \in Jumps, Passes(d) PROVE Account'
    BY <2>2, AccountAside DEF Passes, ghosts
  <2>3. ASSUME NEW s \in Schedules, Create(s) PROVE Account'
    BY <2>3, AccountAside DEF Create, ghosts
  <2>4. ASSUME NEW u \in Users, Request(u) PROVE Account'
    <3>1. UNCHANGED <<beat, launches, unmarked>>
      BY <2>4 DEF Request, Read, WriteCancelled, WriteExecuted, WriteDate, WriteToggle, ghosts
    <3> QED
      BY <3>1, AccountAside
  <2>5. CASE UNCHANGED vars
    BY <2>5, AccountAside DEF vars, ghosts
  <2> QED
    BY <2>1, <2>2, <2>3, <2>4, <2>5 DEF Next
<1>2. IInv /\ Account => LaunchesBounded
  <2> SUFFICES ASSUME IInv, Account, NEW s \in OneTime
               PROVE  launches[s] <= Cardinality(Beats) + unmarked[s]
    BY DEF LaunchesBounded
  <2>1. /\ Cardinality(Counted(s)) \in Nat /\ Cardinality(Beats) \in Nat
        /\ Cardinality(Counted(s)) <= Cardinality(Beats)
    BY CountedFinite DEF Counted
  <2> QED
    BY <2>1 DEF Account, IInv, ScheduledTypeOK
<1> QED
  BY <1>1, <1>2, InitAccount, Invariance, PTL DEF ScheduledSpec
=============================================================================
