SPECIFICATION Spec
CONSTANTS
    p1 = p1
    p2 = p2
    w1 = w1
    w2 = w2
    c1 = c1
    Paths = {p1, p2}
    Writers = {w1, w2}
    WritesOf <- OwnLeaves
    Clients = {c1}
    Resuming = {c1}
    MaxErrors = 1
    MaxDrops = 1
    ReplayCap = 1
    BroadcastCap = 1
    MaxEmits = 2
    MaxChanges = 1
INVARIANTS TypeOK ViewCovers Converged
PROPERTY Implements
CHECK_DEADLOCK FALSE
