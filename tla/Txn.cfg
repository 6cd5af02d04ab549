SPECIFICATION MCTxnSpec
CONSTANTS
    LockKey = {lk1, lk2}
    LockTxn = {lt1, lt2, lt3}
    NoTxn = NoTxn
    Participant = {p1, p2, p3}
    Impatient = FALSE
    Branch = {b1, b2, b3}
    PercKey = {k1, k2, k3}
    NoKey = NoKey
    MaxCalls = 5
    SSITxn = {t1, t2}
    SSIKey = {x, y}
    NoConflict = NoConflict
    Steps = 4
    RetryCount = 2
    Compensable = {1, 2, 3}
    Caller = {c1, c2}
    BatchSize = 3
    MaxHLC = 6
INVARIANTS
    RefusedByAnElder
    
PROPERTIES
    LockTableIsSound
    TwoPCIsAtomic
    TPCIsAtomic
    
    SagaEnds
CHECK_DEADLOCK FALSE
