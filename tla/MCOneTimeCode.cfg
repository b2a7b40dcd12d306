SPECIFICATION Spec
CHECK_DEADLOCK FALSE
CONSTANTS
    h1 = h1
    h2 = h2
    Procs = {h1, h2}
    MaxCodes = 3
    MaxAttempts = 2
    MaxSends = 1
    MaxDeaths = 1
SYMMETRY Interchangeable
INVARIANTS
    TypeOK
    GuessesBounded
    CeilingHolds
    SpentStaysSpent
    SentCodeLasts
