CONSTANTS
    Entries = {1}
    Workers = {w1, w2}
    Stack = FALSE
    Leases = {1, 2}
    Delays = {0, 1}
    Batch = 1
    MaxTime = 4
    NoEntry = NoEntry
    DefaultLease = 1
    Lease = 2
    MaxFaults = 1
    MaxLost = 1
SPECIFICATION FairSpec
INVARIANTS
    LeaseMeansOwnership
PROPERTIES
    StoreSpec
    AlwaysLatestAttemptSettles
    CancelledTakesNoEntry
    EveryEntryFinishes
CHECK_DEADLOCK FALSE
