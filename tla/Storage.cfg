CONSTANTS
    w1 = w1
    w2 = w2
    k1 = k1
    k2 = k2
    Torn = Torn
    Writer = {w1, w2}
    Key = {k1, k2}
    SegmentSize = 2
    MaxSeq = 4
    MemTableSize = 2
    FlushCap = 1
    MaxLevel0SSTables = 2
    MaxDowns = 2
    MaxPowerLosses = 1
SPECIFICATION Spec
CHECK_DEADLOCK FALSE
INVARIANTS TypeOK AckedOnDiskUnlessRaced NothingDropped WaiterIsServed
