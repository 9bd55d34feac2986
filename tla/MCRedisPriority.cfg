CONSTANTS
    Entries = {1, 2, 3}
    Workers = {w1}
    Stack = FALSE
    Leases = {1}
    Delays = {0, 1}
    Batch = 2
    MaxTime = 2
    NoEntry = NoEntry
    Priorities = {0, 1}
    Space = 3
    MaxSequence = 4
    Failing = {2}
SPECIFICATION PSpec
INVARIANTS
    OneHome
PROPERTIES
    AlwaysInOrder
CHECK_DEADLOCK FALSE
