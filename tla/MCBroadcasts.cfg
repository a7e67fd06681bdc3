SPECIFICATION Spec
CONSTANTS
    Workers = {w1}
    NoWorker = NoWorker
    MaxStalled = 0
    Requests = {r1}
    Filters = {f1}
    NoFilter = NoFilter
    Editors = {e1}
    Drafts <- ReadyDrafts
    Keep = Keep
    Patches <- LatePatches
    Contacts = {c1, c2}
    Movers = {c2}
    BatchSize = 1
    ContactAttempts = 1
CHECK_DEADLOCK FALSE
INVARIANTS MailWasRequested CompletedRunIsWhole
