SPECIFICATION Spec
CONSTANTS
    Readers = {r1, r2, r3}
    Clocks = {1, 2}
    Interval = 1
    old = old
    new = new
    back = back
    Deployers = {old, new, back}
    Bundled <- Libraries
    Rollback = {back}
    Callers = {a1, a2}
    RequiredAPI = 2
    Absent = Absent
    Free = Free
    RawClients = {c1, c2}
    RawItems = {1, 2, 3, 4}
    MaxSize = 2
    MaxBatch = 2
    MaxAdded = 1
INVARIANTS
    FlagMeansRefresh
    CallsAreCompatible
    ValuesAreKept
PROPERTIES
    NoSilentDowngrade
CHECK_DEADLOCK FALSE
