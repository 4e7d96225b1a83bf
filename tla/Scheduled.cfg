SPECIFICATION MCSpec
CONSTANTS
    Schedules <- MCSchedules
    Recurs <- MCRecurs
    Pattern <- MCDaily
    Beats = {b1, b2}
    Users = {u1}
    Jumps <- MCJumps
    MaxClock = 2160
    MaxMishaps = 1
INVARIANT LaunchesBounded
PROPERTY SettledForGood
PROPERTY ActiveNextAhead
PROPERTY DueIsServed
CHECK_DEADLOCK FALSE
