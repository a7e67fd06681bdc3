SPECIFICATION Spec
CONSTRAINT Bounds
SYMMETRY Symmetry
CONSTANTS
    Workers = {w1, w2}
    NoWorker = NoWorker
    MaxStalled = 1
    NoKey = NoKey
    NoText = NoText
    TextHolds <- MCTextHolds
    trigger = trigger
    addTag = addTag
    removeTag = removeTag
    sendEmail = sendEmail
    vip = vip
    pro = pro
    Steps = {trigger, addTag, removeTag, sendEmail}
    NoStep = NoStep
    Kind <- MCKind
    TagsOf <- MCTagsOf
    SeededParent <- MCSeeded
    TriggerFilter <- MCFilter
    Contacts = {1, 2, 3}
    Columns <- MCColumns
    Tags = {vip, pro}
    Entries = {e1}
    EntryContact <- MCEntryContact
    BulkSteps = {sendEmail}
    Pending <- MCPending
    BatchSize = 1
    PagedAttempts = 1
CHECK_DEADLOCK FALSE
INVARIANTS AutomationTypeOK CompletedLeavesRow EnteredHasJob TagsOfRecordedStep SiblingsOverlapped EveryPendingQueued
PROPERTY KeepsLedger
