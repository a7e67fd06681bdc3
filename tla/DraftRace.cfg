SPECIFICATION ControlSpec
CONSTANTS
    Workers = {w1}
    NoWorker = NoWorker
    MaxStalled = 1
    Requests = {r1, r2}
    Filters = {f1}
    NoFilter = NoFilter
    Editors = {e1}
    Drafts <- Created
    Keep = Keep
    Patches <- AnyPatch
CHECK_DEADLOCK FALSE
PROPERTY SendOnlyFromDraft
