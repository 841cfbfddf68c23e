SPECIFICATION FairSpec
CONSTANTS
    a = a
    b = b
    k1 = k1
    c1 = c1
    NoId = NoId
    Ids = {a, b}
    Callers = {k1}
    Clients = {c1}
    Wants <- Follows
    Offered = {"new_scene", "set_active_scene", "clear_scenes", "reject"}
    MaxScenes = 2
    MaxCalls = 2
    EventCap = 1
    MaxSends = 2
    MaxDrops = 1
INVARIANTS TypeOK ActiveIsRegistered NoMixing ChangedThenSnapshot CountedIsShown
PROPERTY EventuallySettles
CHECK_DEADLOCK FALSE
