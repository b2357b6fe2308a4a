SPECIFICATION FeedSpec
CONSTANTS
    Selections = {k1}
    QueueDepth = 1
    MaxTicks = 2
    MaxFaults = 1
    NoOffset = NoOffset
PROPERTY ReconnectStream
CHECK_DEADLOCK FALSE
