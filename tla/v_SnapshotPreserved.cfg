SPECIFICATION Spec
CONSTANTS
    Quantities = {1}
    Prices = {2}
    Keys = {"k1"}
    Edits <- ClaimsEdits
    Trackings = {"REENTRY_WATCH"}
    Positions = {"EMPTY", "NEEDS_REVIEW"}
    MaxTime = 2
    MaxRows = 3
    MaxImport = 2
PROPERTIES
    SnapshotPreserved
CHECK_DEADLOCK FALSE
