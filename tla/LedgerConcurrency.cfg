SPECIFICATION Spec
CONSTANTS
    Keys = {"k1"}
    Sessions = {s1, s2}
    Free = free
    Quantities = {1}
    Prices = {1, 2}
    Edits <- TwoEdits
    InitialItems <- WatchedItem
    MaxRows = 2
SYMMETRY Interchangeable
INVARIANTS
    LedgerIsReplayed
    OneRowPerKey
PROPERTIES
    RowsSurvive
    FreshRequestSetsItem
CHECK_DEADLOCK FALSE
