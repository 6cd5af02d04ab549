\* Three calls of the read tracker, three callers of the breaker, two calls during start and
\* stop, two senders to one peer.
CONSTANTS
    ReadCall = {r1, r2, r3}
    MaxCommit = 2
    Caller = {c1, c2, c3}
    MinSample = 2
    SuccessThreshold = 2
    MaxRequests = 5
    Call = {k1, k2}
    Peer = {p1}
    Sender = {m1, m2}
    MaxAttempts = 3
    MaxDials = 2
SPECIFICATION MCServerSpec
PROPERTIES
    StarterIsAnswered
    BreakerRecovers
    LifecycleIsSound
    TransportIsSound
CHECK_DEADLOCK FALSE
