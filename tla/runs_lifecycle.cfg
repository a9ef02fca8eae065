SPECIFICATION FairSpec
CONSTANTS
    Runs = {1}
    Credentials = {k1}
    SourceEvents = {e1}
    Workers = {w1}
    Reaper = w1
    LeaseTerm = 1
    MaxRevision = 13
    NoWorker = NoWorker
    NoCredential = NoCredential
    NoEvent = NoEvent
INVARIANTS TypeOK
PROPERTIES StrandedIsReaped
