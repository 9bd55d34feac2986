CONSTANTS
    d = d
    a = a
    b = b
    Entries = {1}
    LastStage = 2
    Direct = {d}
    Activators = {a, b}
    Casts <- DirectOrDecorated
    Capacity = 3
    MaxFailures = 1
SPECIFICATION ObserversFairSpec
INVARIANTS
    OneActivation
PROPERTIES
    CallbacksInOrder
    NothingMissed
CHECK_DEADLOCK FALSE
