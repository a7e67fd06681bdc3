SPECIFICATION Spec
CONSTRAINT Bounds
SYMMETRY Symmetry
CONSTANTS
    Workers = {w1, w2}
    NoWorker = NoWorker
    MaxStalled = 1
    NoKey = NoKey
    NoText = NoText
    TextHolds <- MCTextHolds
    x = x
    y = y
    City = City
    Index = Index
    Plan = Plan
    vip = vip
    lead = lead
    t1 = t1
    t2 = t2
    tagging = tagging
    plain = plain
    creating = creating
    p1 = p1
    p2 = p2
    Emails = {x, y}
    Attributes = {City, Index, Plan}
    NoRow = NoRow
    NoPut = NoPut
    NoTag = NoTag
    TagNames = {vip, lead}
    TagRequests = {t1, t2}
    TagNameOf <- MCTagNameOf
    Patches = {p1, p2}
    PatchOf <- MCPatchOf
    Attaches = {a1}
    AttachTo <- MCAttachTo
    FileRows = {x, y}
    FileName = FileName
    FileAttributes = {Index}
    Puts = {tagging, plain, creating}
    SettingsOf <- MCSettingsOf
    ChunkSize = 1
    Exports = {e1}
    SegmentFilters <- MCFilters
CHECK_DEADLOCK FALSE
INVARIANTS ContactsTypeOK ImportIsWhole LostOnlyByOverlap LastSettingsApplied SegmentSelects
PROPERTY SubscribedAtBirth
