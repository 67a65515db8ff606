SPECIFICATION Spec
CONSTANTS
    Runs = {r1, r2, r3}
    Absent = absent
    StaleAfter = 2
    Timeout = 1
    OpenMoves = {FALSE}
    MaxTime = 0
SYMMETRY Interchangeable
INVARIANTS
    OneBatchAtATime
CHECK_DEADLOCK FALSE
