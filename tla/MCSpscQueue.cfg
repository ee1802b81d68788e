SPECIFICATION Spec
CONSTANTS
    capacity_ = 2
    Items = 5
    raw = raw
    broken = broken
    none = none
    empty = empty
INVARIANT RingSound
PROPERTIES FifoRefined EveryValueArrives
CHECK_DEADLOCK FALSE
