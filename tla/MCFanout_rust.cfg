SPECIFICATION FairSpec
CONSTANTS
    p1 = p1
    p2 = p2
    w1 = w1
    w2 = w2
    c1 = c1
    Paths = {p1, p2}
    Writers = {w1, w2}
    WritesOf <- OwnLeaves
    Clients = {c1}
    Resuming = {}
    MaxErrors = 0
    MaxDrops = 1
    ReplayCap = 1
    BroadcastCap = 1
    MaxEmits = 3
    MaxChanges = 1
INVARIANTS FanoutInv SnapshotCovers EachNumberOnce
PROPERTY EventuallyConverges
CHECK_DEADLOCK FALSE
