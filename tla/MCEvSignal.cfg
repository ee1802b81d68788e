SPECIFICATION SigSpec
CONSTANTS
    s1 = s1
    c1 = c1
    c2 = c2
    a1 = a1
    pipe_w = pipe_w
    childev = childev
    SigWatchers = {s1}
    SignalOf <- MCSignalOf
    Childs = {c1, c2}
    PidOf <- MCPidOf
    Traced = {c1}
    Asyncs = {a1}
    Pids = {1, 2}
    HashSize = 2
    Programs <- MCPrograms
INVARIANT SigInv
PROPERTIES StatusKept EveryChildReaped
CHECK_DEADLOCK FALSE
