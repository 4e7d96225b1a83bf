SPECIFICATION MCSpec
CONSTANTS
    a = a
    b = b
    Actions = {a, b}
    Workflows = {a}
    Hosts = {h}
    Requests = {r1, r2}
    Beats = {s}
    Children = {c}
    Admins = {d}
    InitialRules <- MCRules
    Parents = {s}
    Nobody = Nobody
SYMMETRY Alike
INVARIANTS RivalsOverlapped
PROPERTIES EndedStaysEnded
CHECK_DEADLOCK FALSE
