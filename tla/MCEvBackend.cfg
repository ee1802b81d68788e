SPECIFICATION BackendSpec
CONSTANTS
    w1 = w1
    w2 = w2
    w3 = w3
    Watchers = {w1, w2, w3}
    Fds = {0, 1}
    FdOf <- MCFdOf
    EventsOf <- MCEventsOf
    MaxTroubles = 3
INVARIANTS TablesTold KqueueTold
PROPERTIES BadFdsStopped
CHECK_DEADLOCK FALSE
