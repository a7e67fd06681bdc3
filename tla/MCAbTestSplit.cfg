SPECIFICATION Spec
CONSTANTS
    Contacts <- FiveContacts
    Weights <- SomeWeights
    ShortShares <- OneShort
    BatchSize = 2
    MaxVariants = 2
    MaxMoves = 2
CHECK_DEADLOCK FALSE
INVARIANTS SplitTypeOK MoveCostsOne ShareHonoured
