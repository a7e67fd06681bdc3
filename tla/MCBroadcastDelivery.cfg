SPECIFICATION DeliverySpec
CONSTRAINT OneJobStalls
SYMMETRY Symmetry
CONSTANTS
    Workers = {w1, w2}
    NoWorker = NoWorker
    MaxStalled = 1
    Requests = {r1}
    Filters = {f1}
    NoFilter = NoFilter
    Drafts <- ReadyDrafts
    Contacts = {c1}
    Movers = {}
    BatchSize = 1
    ContactAttempts = 3
CHECK_DEADLOCK FALSE
INVARIANT DeliveryInv
PROPERTIES KeepsPromise NoMailOnceDeleted
