SPECIFICATION Spec
CONSTANTS
    Watchers = {w1, w2, w3, w4, w5, w6}
    Times <- MCTimes
    DHEAP = 2
SYMMETRY MCSymmetry
INVARIANT HeapInv
CHECK_DEADLOCK FALSE
