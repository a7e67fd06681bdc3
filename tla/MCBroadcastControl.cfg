SPECIFICATION ControlSpec
SYMMETRY Symmetry
CONSTANTS
    Workers = {w1}
    NoWorker = NoWorker
    MaxStalled = 1
    Requests = {r1, r2}
    Filters = {f1}
    NoFilter = NoFilter
    Editors = {e1, e2}
    Drafts <- Created
    Keep = Keep
    Patches <- AnyPatch
INVARIANTS TypeOK QueuedHasJob AcknowledgedStaysQueued AbTestHasVariants
CHECK_DEADLOCK FALSE
PROPERTY NoSendAfterAcknowledged
