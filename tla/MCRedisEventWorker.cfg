CONSTANTS
    Events = {1}
    Workers = {w1, w2}
    Stack = FALSE
    Lifetimes = {1, 4}
    Leases = {1}
    Delays = {0}
    Batch = 1
    MaxTime = 2
    NoEvent = NoEvent
    NumListeners = 2
    Verdicts <- AnyThenTaker
    Lease = 1
    ReleaseDelay = 0
    MaxFaults = 1
SPECIFICATION EWFairSpec
INVARIANTS
    NoEventStranded
    EventLeaseMeansOwnership
    TakenOnce
PROPERTIES
    AlwaysEventLeaseHonoured
    LifetimeSpec
    
CHECK_DEADLOCK FALSE
