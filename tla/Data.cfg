\* Two or three actors of each data type, and enough calls for every race of two of them.
CONSTANTS
    HLCNode = {n1, n2}
    CounterRange = 3
    MaxSkew = 1
    MaxWall = 3
    Proc = {p1, p2}
    MaxEvents = 4
    Replica = {r1, r2}
    MaxCounts = 2
    Nodes = 3
    MaxStamp = 3
    MaxWrites = 3
    Site = {s1, s2}
    Element = {e1}
    MaxAdds = 2
    Client = {c1, c2, c3}
    NoClient = NoClient
    MaxToken = 5
    Reader = {reader1}
    Writer = writer
    MaxOps = 4
    Server = {v1, v2}
    NoServer = NoServer
    Read = {g1}
    MaxCommands = 2
    MaxElections = 2
    Limiter = {l1, l2}
    Capacity = 2
    Rate = 1
    MaxTime = 2
    Limit = 3
    Window = 3
    MaxTicks = 9
    NodeCount = 2
    FirstByte = 1
    ByteRange = 2
    NumShards = 2
    MaxShards = 4
    MaxActions = 2
    Request = {q1}
    MaxRetries = 1
    RingNode = {m1, m2, m3}
    VirtualNodes = 2
    RingSize = 5
    MaxKey = 3
    MaxLevel = 2
    MaxValue = 2
    BlockSize = 3
    FilterBits = 2
    HashCount = 2
    SplitKeys <- MCSplitKeys
    StoredKeys <- MCStoredKeys
    QueryKeys <- MCQueryKeys
    QueryLimits = {0, 1, 2}
    QueryValues <- MCQueryValues
    SinkCount = 2
    BatchSize = 2
    MaxVersion = 3
    MaxFeeds = 2
    MaxFailures = 2
    Peer = {a1, a2, a3}
    MaxMessages = 2
SPECIFICATION MCDataSpec
INVARIANTS
    ClocksFollowCausality
    
    
    
    AckedUnlessDeposed
    RatesAreBounded
    
    TablesAreFaithful
    
    
    
PROPERTIES HolderIsProtected RingChangesAreLocal
CHECK_DEADLOCK FALSE
