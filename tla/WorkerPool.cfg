\* Two producers and two workers on a ring of two slots: the ring wraps
\* twice and the producers catch up with the workers.
SPECIFICATION FairSpec
CONSTANTS
    Producer = {p1, p2}
    Worker = {w1, w2}
    Running = {w1, w2}
    BufferSize = 2
    MaxEvents = 3
    NoEvent = NoEvent
INVARIANTS TypeOK SlotNotReused
PROPERTIES ImplementsDispatch EveryEventHandled OnDataReturns
CHECK_DEADLOCK FALSE
