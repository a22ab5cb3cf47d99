SPECIFICATION FairSpec
CONSTANTS
    Users = {a, b}
    MaxRings = 1
INVARIANT MicOnlyInCall
