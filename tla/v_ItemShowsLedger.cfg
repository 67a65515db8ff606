SPECIFICATION Spec
CONSTANTS
    Keys = {}
    Sessions = {s1, s2}
    Free = free
    Quantities = {1}
    Prices = {2}
    Edits <- NoEdits
    InitialItems <- HeldItem
    MaxRows = 3
INVARIANTS
    ItemShowsLedger
CHECK_DEADLOCK FALSE
