SPECIFICATION Spec
CHECK_DEADLOCK FALSE
CONSTANTS
    s1 = s1
    s2 = s2
    None = None
    Senders = {s1, s2}
    Accounts = {1, 2}
    MaxAttempts = 2
    Batch = 2
    MaxAborts = 1
    QueueCap = 2
SYMMETRY Interchangeable
INVARIANT
    QueuedOnce
