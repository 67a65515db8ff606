SPECIFICATION MCSpec
CONSTANTS
    Quantities = {1}
    Prices = {1, 2}
    Keys = {"k1"}
    Edits <- AllEdits
    Trackings = {"NONE", "REENTRY_WATCH"}
    Positions = {"EMPTY", "NEEDS_REVIEW"}
    MaxTime = 2
    MaxRows = 3
    MaxImport = 2
INVARIANTS
    TypeOK
    ChainInSequence
    QuantityConserved
    AverageWithinPrices
    SalesMirrorSells
    HoldingHasAverage
PROPERTIES
    VoidedIsFinal
    LedgerStepSetsItem
    FirstTradeKeepsSnapshot
CHECK_DEADLOCK FALSE
