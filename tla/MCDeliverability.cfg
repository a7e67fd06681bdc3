SPECIFICATION Spec
CONSTRAINT Bounds
SYMMETRY Symmetry
CONSTANTS
    Workers = {w1, w2}
    NoWorker = NoWorker
    MaxStalled = 1
    NoKey = NoKey
    n1 = n1
    n2 = n2
    r1 = r1
    r2 = r2
    Names = {n1, n2}
    Regs = {r1, r2}
    NoReg = NoReg
    NoName = NoName
    NoSource = NoSource
    NoRow = NoRow
    NoSend = NoSend
    sendA = sendA
    sendB = sendB
    engageA = engageA
    engageB = engageB
    Sources = {sendA, sendB, engageA, engageB}
    Pool <- MCPool
    InitialSources <- MCInitialSources
    Slots = 2
    RecheckAttempts = 2
    reception = reception
    delivery = delivery
    nameless = nameless
    m1 = m1
    Logs = {reception, delivery, nameless}
    SendIds = {m1}
    SendIdOf <- MCSendIdOf
    SenderName <- MCSenderName
    DeliveredBy <- MCDeliveredBy
    Readers = {q1}
CHECK_DEADLOCK FALSE
INVARIANTS DeliverabilityTypeOK RegisteredHasKey NamesOverlapped SourcesOnlyWhenVerified VerificationGoesOn CachedRowIsOlder CompletedLogHasEvent
PROPERTY SourceNeverForgotten
