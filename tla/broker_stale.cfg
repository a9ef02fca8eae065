SPECIFICATION Spec
CONSTANTS
    Calls = {c1, c2}
    MaxToken = 1
    MaxKeys = 2
    MaxLeases = 3
    MaxMishaps = 1
SYMMETRY Symmetry
PROPERTIES StaleCannotCommit
CHECK_DEADLOCK FALSE
