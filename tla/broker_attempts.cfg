SPECIFICATION Spec
CONSTANTS
    Calls = {c1, c2}
    MaxToken = 2
    MaxKeys = 3
    MaxLeases = 3
    MaxMishaps = 2
SYMMETRY Symmetry
INVARIANTS TypeOK OneAnswer OneWorker SucceededUsable
CHECK_DEADLOCK FALSE
