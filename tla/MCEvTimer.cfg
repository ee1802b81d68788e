SPECIFICATION Spec
CONSTANTS
    Watchers = {w1, w2}
    Kinds <- MCKinds
    MinTimejump = 3
    MaxBlocktime = 4
    BackendMintime = 1
    TimeoutBlocktime = 0
    Jumps <- MCJumps
    MaxClock = 5
    MaxJumps = 1
SYMMETRY MCSymmetry
INVARIANTS TimerInv NeverOversleeps
PROPERTIES NeverEarly CalledInOrder OncePerPoint
CHECK_DEADLOCK FALSE
