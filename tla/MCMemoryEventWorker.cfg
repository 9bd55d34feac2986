CONSTANTS
    Events = {1, 2}
    Workers = {w1, w2}
    EventWorkers = {w1}
    Lifetimes = {0, 2}
    Leases = {1}
    NoLease = NoLease
    Delays = {1}
    Lags = {0, 1}
    MaxTime = 2
    MaxLeft = 2
    NoEvent = NoEvent
    NumListeners = 2
    Verdicts <- AnyThenTaker
    ReleaseDelay = 1
    MaxCancels = 1
SPECIFICATION EWFairSpec
INVARIANTS
    NoEventStranded
    NoClaimStuck
PROPERTIES
    AlwaysClaimHonoured
    LifetimeSpec
    EveryEventLeaves
CHECK_DEADLOCK FALSE
