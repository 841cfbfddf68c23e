SPECIFICATION FairSpec
CONSTANTS
    p1 = p1
    p2 = p2
    w1 = w1
    w2 = w2
    c1 = c1
    Paths = {p1, p2}
    Writers = {w1}
    WritesOf <- OneWriter
    Clients = {c1}
    Resuming = {c1}
    MaxErrors = 0
    MaxDrops = 0
    ReplayCap = 2
    BroadcastCap = 2
    MaxEmits = 2
    MaxChanges = 1
PROPERTY EventuallyConverges
CHECK_DEADLOCK FALSE
