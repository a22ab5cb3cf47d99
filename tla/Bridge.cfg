SPECIFICATION FairSpec
CONSTANTS
    MaxEvents = 2
    MaxPings = 1
    MaxRequests = 1
    MaxTicks = 2
 
PROPERTIES GuiFramesWhole OnlyPongsTear RequestsForwarded ProcessEnds
CHECK_DEADLOCK FALSE
