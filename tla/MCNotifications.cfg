CONSTANTS
    Notes = {1, 2}
    Receivers = {r1, r2}
    Home = r1
    NumListeners = 2
    Outcomes = {"runs", "fails"}
    Lifetimes = {1, 2}
    RemovalLease = 1
    MaxTime = 2
    MaxFaults = 1
SPECIFICATION NotificationsFairSpec
INVARIANTS
    EveryListenerOnce
PROPERTIES
    EveryCopyExpires
    SeenByAudience
CHECK_DEADLOCK FALSE
