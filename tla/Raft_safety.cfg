CONSTANTS
    s1 = s1
    s2 = s2
    s3 = s3
    v1 = v1
    Noop = Noop
    Nil = Nil
    Server = {s1, s2, s3}
    Value = {v1}
    Peers <- Others
    MaxEntriesToSend = 2
    Transport = "mem"
    MaxTerm = 2
    MaxMsgs = 3
    MaxRestarts = 0
SPECIFICATION Spec
SYMMETRY Symmetry
CHECK_DEADLOCK FALSE
INVARIANTS TypeOK ElectionSafety LogMatching AppliedIsCommittedPrefix LeaderCompleteness ChosenOnMajority
