SPECIFICATION Spec
CONSTANTS
    p1 = p1
    p2 = p2
    w1 = w1
    w2 = w2
    c1 = c1
    Paths = {p1, p2}
    Writers = {w1}
    WritesOf <- OneWriter
    Clients = {c1}
    Resuming = {c1}
    MaxErrors = 0
    MaxDrops = 2
    ReplayCap = 2
    BroadcastCap = 4
    MaxEmits = 3
    MaxChanges = 1
INVARIANTS SliceComplete NothingSkipped
CHECK_DEADLOCK FALSE
