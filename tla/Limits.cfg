\* LoginAttempt with two keys and two goroutines: locks, sweeps, failures still
\* in flight, a restart.  IpCheck with three goroutines and two kinds of request
\* from both loopback addresses: losses enough to fill a counter without a time
\* to live.
SPECIFICATION LimitsSpec
CONSTANTS
    Keys = {k1, k2}
    Requests = {r1, r2}
    NoKey = NoKey
    NoUser = NoUser
    Max = 3
    Minute = 1
    MaxRestarts = 1
    Kinds = {reset, register}
    Addresses = {ip6, ip4}
    Loopback6 = ip6
    Localhost = ip4
    Workers = {w1, w2, w3}
    NoCounter = NoCounter
    MaxAttempts = 3
    Window = 2
    MaxFailures = 3
INVARIANTS
    TypesOK
    FailuresLock
    LockServedInFull
    OverrunBounded
    AdmissionBounded
    StuckOnlyByLosses
PROPERTIES
    LockLifts
    RefusalEnds
