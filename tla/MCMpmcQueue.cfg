SPECIFICATION RingSpec
CONSTANTS
    p1 = p1
    p2 = p2
    c1 = c1
    c2 = c2
    Producers = {p1, p2}
    Consumers = {c1, c2}
    Uses <- Sound
    raw = raw
    none = none
    empty = empty
INVARIANT RingKept
PROPERTIES RingIsFifo RingEmpties
CHECK_DEADLOCK FALSE
