SPECIFICATION FairSpec
CONSTANTS
    c1 = c1
    c2 = c2
    Events = {e1}
    Credentials = {c1, c2}
    Keys = {k1}
    Handlers = {h1, h2}
    None = None
    Threshold <- Thresholds
    Matches <- Found
    Removable = {c2}
    MaxRevision = 2
    MaxDeliveries = 2
    MaxCrashes = 1
INVARIANTS LinkedRunMatches
PROPERTIES StatusForward AlertIsTakenUp
CHECK_DEADLOCK FALSE
