SPECIFICATION Spec
CONSTANTS
    rd = rd
    wr = wr
    fd0 = fd0
    fd1 = fd1
    other = other
    a = a
    b = b
    regular = regular
    closed = closed
    Watchers = {rd, wr, other}
    Fds = {fd0, fd1}
    Fd <- MCFd
    Wants <- MCWants
    Files = {a, b, regular}
    Regular = {regular}
    Restoring = FALSE
    MaxCalls = 7
INVARIANT KernelAgrees
PROPERTIES NoStaleEvent SpuriousIsAnswered
CHECK_DEADLOCK FALSE
