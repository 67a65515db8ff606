SPECIFICATION FairSpec
CONSTANTS
    Keys = {}
    Sessions = {s1, s2}
    Free = free
    Quantities = {1}
    Prices = {2}
    Edits <- NoEdits
    InitialItems <- HeldItem
    MaxRows = 2
PROPERTIES
    RequestsEnd
CHECK_DEADLOCK FALSE
