------------------------------ MODULE Schedule ------------------------------
(***************************************************************************)
(* calculate_next_execution_date (utils/scheduling.py) on a clock that     *)
(* counts minutes from a Monday 00:00 UTC.  Seconds are cut off: a date at *)
(* the minute of the clock is not ahead of it.                             *)
(*                                                                         *)
(*   a pattern   [type, day (1 = Monday .. 7), minute (of the day, or, for *)
(*               cron, the period)]                                        *)
(***************************************************************************)
EXTENDS Integers

Day == 1440

Patterns ==
    [type : {"daily", "weekly", "cron"}, day : 1 .. 7, minute : 0 .. Day - 1]

IsoWeekday(now) == ((now \div Day) % 7) + 1

DaysAhead(day, now) ==
    LET ahead == (day - IsoWeekday(now)) % 7 IN IF ahead = 0 THEN 7 ELSE ahead

Daily(p, now) ==
    LET candidate == (now \div Day) * Day + p.minute
    IN  IF candidate <= now THEN candidate + Day ELSE candidate

(* Never later on the same day: a week ahead instead.                      *)
Weekly(p, now) ==
    ((now \div Day) + DaysAhead(p.day, now)) * Day + p.minute

(* croniter, for the expressions that fire every p.minute minutes.         *)
Cron(p, now) == ((now \div p.minute) + 1) * p.minute

NextDate(p, now) ==
    IF p.type = "daily" THEN Daily(p, now)
    ELSE IF p.type = "weekly" THEN Weekly(p, now)
    ELSE Cron(p, now)
=============================================================================
