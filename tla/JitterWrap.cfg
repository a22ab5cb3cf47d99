SPECIFICATION Spec
CONSTANTS
    SeqMod = 16
    Capacity = 4
    MinThreshold = 1
    MaxThreshold = 3
    PileUp = 2
    Burst = 2
    AdaptEvery = 2
    MaxSent = 24
    Reorder = 3
INVARIANT NothingStuck
CHECK_DEADLOCK FALSE
