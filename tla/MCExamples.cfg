SPECIFICATION MCSpec
CONSTANTS
    Conns = {c1, c2, c3}
    MaxFd = 2
    FdSetSize = 2
    TableSize = 2
    MaxSent = 1
    Clients = {p1, p2}
    Urgent = {p2}
    QueueMax = 2
    MaxStarts = 2
    MaxGiven = 2
    Messages = 4
    MaxRuns = 2
INVARIANTS ServersInv MemoryInv
PROPERTIES ClosedForCause Answered LostForCause AllPrinted
CHECK_DEADLOCK FALSE
