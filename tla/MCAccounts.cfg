SPECIFICATION Spec
CHECK_DEADLOCK FALSE
CONSTANTS
    b1 = b1
    b2 = b2
    e1 = e1
    e2 = e2
    t1 = t1
    t2 = t2
    h1 = h1
    None = None
    Browsers = {b1, b2}
    Emails = {e1, e2}
    Lines <- MCLines
    Typed <- MCTyped
    Canon <- MCCanon
    Telegrams = {t1, t2}
    Handles = {h1}
    MaxAccounts = 3
    MaxTrips = 2
    MaxRequests = 3
SYMMETRY Interchangeable
INVARIANTS
    TypeOK
    OneAccountEach
    OneAccountPerLine
    OpensItsOwn
    LockedOutByChoice
    ClaimedWhileEmpty
    VerifiedAnswered
PROPERTY
    TripsComeHome
