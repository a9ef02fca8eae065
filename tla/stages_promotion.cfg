SPECIFICATION Spec
CONSTANTS
    Calls = {c1, c2}
    Run = {r1}
    First = g0
    Service = {s1, s2}
    None = None
    MaxRevision = 5
    MaxToken = 1
    MaxMishaps = 0
SYMMETRY Symmetry
INVARIANTS RefusedOnlyUnverified
CHECK_DEADLOCK FALSE
