SPECIFICATION Spec
CONSTANTS
    a = a
    b = b
    k1 = k1
    c1 = c1
    NoId = NoId
    Ids = {a, b}
    Callers = {k1}
    Clients = {c1}
    Wants <- Follows
    Offered = {"new_scene", "set_active_scene"}
    MaxScenes = 2
    MaxCalls = 1
    EventCap = 1
    MaxSends = 1
    MaxDrops = 0
INVARIANT NoDeltaDropped
CHECK_DEADLOCK FALSE
