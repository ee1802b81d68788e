SPECIFICATION Spec
CONSTANTS
    p1 = p1
    p2 = p2
    c1 = c1
    c2 = c2
    Producers = {p1, p2}
    Consumers = {c1, c2}
    Items <- MCItems
    dummy = dummy
    nullptr = nullptr
    none = none
    empty = empty
INVARIANT LinksSound
PROPERTIES FifoRefined EveryValueArrives
CHECK_DEADLOCK FALSE
