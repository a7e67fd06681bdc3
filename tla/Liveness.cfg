SPECIFICATION FairDeliverySpec
CONSTRAINT OneJobStalls
CONSTANTS
    Workers = {w1}
    NoWorker = NoWorker
    MaxStalled = 1
    Requests = {r1}
    Filters = {f1}
    NoFilter = NoFilter
    Drafts <- ReadyDrafts
    Contacts = {c1}
    Movers = {}
    BatchSize = 1
    ContactAttempts = 2
CHECK_DEADLOCK FALSE
PROPERTY EveryJobSettles
