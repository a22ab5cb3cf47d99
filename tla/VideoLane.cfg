SPECIFICATION VideoSpec
CONSTANTS
    SeqMod = 20
    Capacity = 4
    MinThreshold = 2
    MaxThreshold = 2
    PileUp = 1
    Burst = 2
    AdaptEvery = 1
    MaxSent = 30
    Reorder = 3
    MaxChunks = 2
    MaxFrames = 5
    MaxRestarts = 1
    RestartBy = 2
    TsStep = 2
    TsMod = 64
    MaxMissed = 3
    MaxStreak = 1
INVARIANTS FramesAccounted SenderAhead
PROPERTIES FramesInOrder
CHECK_DEADLOCK FALSE
