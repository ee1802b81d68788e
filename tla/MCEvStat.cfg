SPECIFICATION StatSpec
CONSTANTS
    w1 = w1
    w2 = w2
    none = none
    Stats = {w1, w2}
    FileSystems = {"local", "remote"}
    QueueMax = 2
    MaxChanges = 3
    MaxStarts = 2
    MaxForks = 1
SYMMETRY Symmetry
INVARIANTS PathsWatched ChangesSeen
CHECK_DEADLOCK FALSE
