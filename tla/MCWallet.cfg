SPECIFICATION FairSpec
CONSTANTS
    alice = alice
    bob = bob
    stranger = stranger
    k1 = k1
    k2 = k2
    Service = Service
    NoKey = NoKey
    None = None
    Users <- MCUsers
    Strangers <- MCStrangers
    Keys <- MCKeys
    Procs = {p1, p2}
    Requests <- MCRequests
    MaxCents = 3
    MaxPosts = 2
INVARIANTS
    TypeOK
    BalanceIsLedger
    NeverOverdrawn
    KeyPostedOnce
    AnswerIsPosted
PROPERTIES
    ImplementsLedger
    CallsEnd
