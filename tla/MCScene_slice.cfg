SPECIFICATION SceneSpec
CONSTANTS
    p1 = p1
    p2 = p2
    w1 = w1
    w2 = w2
    w3 = w3
    Paths = {p1, p2}
    Writers = {w1, w2, w3}
    WritesOf <- Racing
    ReplayCap = 3
    BroadcastCap = 2
    MaxEmits = 4
    MaxChanges = 1
INVARIANT SliceComplete
CHECK_DEADLOCK FALSE
