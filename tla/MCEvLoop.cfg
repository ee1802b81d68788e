SPECIFICATION MCSpec
CONSTANTS
    io = io
    chk1 = chk1
    chk2 = chk2
    prep = prep
    idle = idle
    fork = fork
    clean = clean
    pending_w = pending_w
    Watchers = {io, chk1, chk2, prep, idle, fork, clean}
    Kind <- MCKind
    Pri <- MCPri
    NUMPRI = 2
    RunFlags = {"DEFAULT", "ONCE"}
    MaxCalls = 4
    MaxDepth = 2
INVARIANTS PendingIndexed ActiveIndexed HighestFirst RefCountExact
PROPERTIES DeliveryRefined BreakAllUnwinds
CHECK_DEADLOCK FALSE
