SPECIFICATION FairSpec
CONSTANTS
    Producer = {p1, p2}
    Worker = {w1, w2}
    Running = {w1}
    BufferSize = 2
    MaxEvents = 2
    NoEvent = NoEvent
PROPERTY OnDataReturns
CHECK_DEADLOCK FALSE
