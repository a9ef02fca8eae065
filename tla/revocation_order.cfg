SPECIFICATION Spec
CONSTANTS
    Calls = {c1, c2}
    MaxFence = 2
    MaxRevision = 5
    MaxRequests = 4
    MaxMishaps = 1
SYMMETRY Symmetry
ACTION_CONSTRAINT Apart
INVARIANTS RevocationInOrder ApprovedAsReported
CHECK_DEADLOCK FALSE
