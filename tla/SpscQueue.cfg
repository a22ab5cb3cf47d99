SPECIFICATION FairSpec
CONSTANTS
    Capacity = 4
    Wrap = 8
    Data = {d1, d2}
    Nothing = Nothing
INVARIANT
    NoSlotRace
PROPERTIES
    Linearizable
    HeadDelivered
