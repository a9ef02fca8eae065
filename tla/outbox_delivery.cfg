SPECIFICATION QueuesSpec
CONSTANTS
    Runs = {r1}
    Publishers = {p1, p2}
    NoPublisher = NoPublisher
    MaxRevision = 1
    MaxAttempts = 2
    BatchSize = 2
    ScanWindow = 4
    MaxMishaps = 3
    Events = {e1, e2}
    Drains = {d1, d2}
    NoDrain = NoDrain
    MaxDeliveries = 2
    Notices = {n1}
    Endpoints = {a1}
    MaxChanges = 2
INVARIANTS SentAsEmitted
PROPERTIES FirstStoredInOrder EveryEventSettles LoggedInOrder StoredIsAudited EveryDeliverySettles
CHECK_DEADLOCK FALSE
