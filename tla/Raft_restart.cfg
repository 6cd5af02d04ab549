CONSTANTS
    s1 = s1
    s2 = s2
    s3 = s3
    v1 = v1
    Noop = Noop
    Nil = Nil
    Server = {s1, s2, s3}
    Value = {v1}
    Peers <- Seeded
    MaxEntriesToSend = 2
    Transport = "mem"
    MaxTerm = 1
    MaxMsgs = 3
    MaxRestarts = 1
SPECIFICATION Spec
CHECK_DEADLOCK FALSE
INVARIANTS AppliedIsCommittedPrefix
