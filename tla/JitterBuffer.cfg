SPECIFICATION Spec
CONSTANTS
    SeqMod = 16
    Capacity = 5
    MinThreshold = 1
    MaxThreshold = 3
    PileUp = 2
    Burst = 2
    AdaptEvery = 2
    MaxSent = 8
    Reorder = 5
INVARIANTS NothingStuck FullPlays
PROPERTY PlayedInOrder
CHECK_DEADLOCK FALSE
