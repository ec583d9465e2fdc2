SPECIFICATION LiveSpec
CONSTANTS
    f1 = f1
    f2 = f2
    u1 = u1
    Families = {f1, f2}
    Users = {u1}
    Owner <- MCOwner
    Tokens = {t1, t2, t3}
    Requests = {r1, r2}
    Grace = 1
    IdleTimeout = 1
    AbsoluteTimeout = 2
    MaxTime = 1
    None = None
CHECK_DEADLOCK FALSE
PROPERTIES
    Answered
