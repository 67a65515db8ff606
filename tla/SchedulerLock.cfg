SPECIFICATION Spec
CONSTANTS
    Runs = {r1, r2, r3}
    Absent = absent
    StaleAfter = 2
    Timeout = 1
    OpenMoves = {TRUE, FALSE}
    MaxTime = 2
SYMMETRY Interchangeable
INVARIANTS
    ExclusiveUntilRecovery
    LeftoverIsExplained
    AttemptsAreRaces
CHECK_DEADLOCK FALSE
