SPECIFICATION MediaFairSpec
CONSTANTS
    MaxPackets = 3
INVARIANT SingleProducer
PROPERTIES Settles DelayedSent Exits
CHECK_DEADLOCK FALSE
