SPECIFICATION FairSpec
CONSTANTS
    u1 = u1
    u2 = u2
    u3 = u3
    t1 = t1
    t2 = t2
    Users = {u1, u2, u3}
    Tokens = {t1, t2}
    FirstToken = t1
    MaxAttempts = 2
    CommandCap = 2
    MaxCalls = 4
    MaxFailures = 4
INVARIANTS TypeOK StatusIsTrue RotationLasts OneAnswerEach
PROPERTIES CallsReturn DisconnectStops
CHECK_DEADLOCK FALSE
