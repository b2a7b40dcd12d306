SPECIFICATION Spec
CONSTANTS
    u1 = u1
    c1 = c1
    c2 = c2
    read = read
    write = write
    k1 = k1
    t0 = t0
    t1 = t1
    t2 = t2
    h1 = h1
    h2 = h2
    None = None
    Users = {u1}
    Clients = {c1, c2}
    Scopes = {read, write}
    Codes = {k1}
    Tokens = {t0, t1, t2}
    Legacy = {t0}
    Watched = {"quiet"}
    Procs = {h1, h2}
SYMMETRY Interchangeable
INVARIANTS
    TypeOK
    OneHolder
    FamilyIsLogin
    GrantNeverGrows
    CutLoginStaysDead
