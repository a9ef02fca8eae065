SPECIFICATION Spec
CONSTANTS
    Calls = {c1, c2}
    Run = {r1, r2}
    First = g0
    Service = {s1, s2}
    None = None
    MaxRevision = 5
    MaxToken = 2
    MaxMishaps = 1
SYMMETRY Symmetry
INVARIANTS ResultAudited TargetHeld VerifiedBeforeRollout
CHECK_DEADLOCK FALSE
