CONSTANTS
    s1 = s1
    s2 = s2
    s3 = s3
    v1 = v1
    Noop = Noop
    Nil = Nil
    Server = {s1, s2, s3}
    Value = {v1}
    Peers <- Others
    MaxEntriesToSend = 2
    Transport = "grpc"
    MaxTerm = 1
    MaxMsgs = 12
    MaxRestarts = 0
SPECIFICATION TimelySpec
CHECK_DEADLOCK FALSE
PROPERTIES ProposalIsApplied
