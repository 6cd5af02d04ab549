CONSTANTS
    n1 = n1
    n2 = n2
    n3 = n3
    Nobody = Nobody
    Node = {n1, n2, n3}
    Seeds <- StarSeeds
    Transport = "mem"
    IndirectPingCount = 1
    GossipFanout = 1
    QueueCap = 1
    Mortal = {n3}
    Watcher = {n1}
    MaxSilences = 1
    MaxMsgs = 2
SPECIFICATION FairSpec
INVARIANTS TypeOK
PROPERTIES   DeadNoticed
CHECK_DEADLOCK FALSE
