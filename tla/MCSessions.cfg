SPECIFICATION Spec
CHECK_DEADLOCK FALSE
CONSTANTS
    ann = ann
    bob = bob
    h1 = h1
    h2 = h2
    Users = {ann, bob}
    Admins = {ann, bob}
    Passwordless = {bob}
    Procs = {h1, h2}
    Guessed <- MCGuessed
    MaxTries = 1
    MaxSessions = 2
    MaxEras = 1
SYMMETRY Interchangeable
INVARIANTS
    TypeOK
    DecisionsCut
    LockoutHolds
    AdministratorLeft
