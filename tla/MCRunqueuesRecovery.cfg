CONSTANTS
    Entries = {1}
    Workers = {w1, w2}
    Stack = FALSE
    Leases = {1, 2}
    Delays = {0, 1}
    Batch = 1
    MaxTime = 3
    NoEntry = NoEntry
    DefaultLease = 1
    Lease = 2
    MaxFaults = 1
    MaxLost = 0
SPECIFICATION QSpec
PROPERTY
    CrashIsRecovered
CHECK_DEADLOCK FALSE
