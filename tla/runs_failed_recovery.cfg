SPECIFICATION Spec
CONSTANTS
    Runs = {1}
    Credentials = {k1}
    SourceEvents = {e1}
    Workers = {w1, w2}
    Reaper = w1
    LeaseTerm = 1
    MaxRevision = 3
    NoWorker = NoWorker
    NoCredential = NoCredential
    NoEvent = NoEvent
INVARIANT FailedRunCanRecover
