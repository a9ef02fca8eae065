SPECIFICATION Spec
CONSTANTS
    Runs = {1, 2}
    Credentials = {k1}
    SourceEvents = {e1, e2}
    Workers = {w1, w2}
    Reaper = w1
    LeaseTerm = 1
    MaxRevision = 3
    NoWorker = NoWorker
    NoCredential = NoCredential
    NoEvent = NoEvent
INVARIANTS CredentialExclusive OneRunPerTrigger
PROPERTIES FenceNeverShared ReaperSparesLiveWork
SYMMETRY Symmetry
