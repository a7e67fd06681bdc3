SPECIFICATION DeliverySpec
CONSTANTS
    Workers = {w1}
    NoWorker = NoWorker
    MaxStalled = 0
    Requests = {r1}
    Filters = {f1}
    NoFilter = NoFilter
    Drafts <- ReadyDrafts
    Contacts = {c1, c2, c3}
    Movers = {}
    BatchSize = 1
    ContactAttempts = 1
CHECK_DEADLOCK FALSE
INVARIANT EveryContactQueued
