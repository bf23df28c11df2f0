\* Two threads, one channel that may break: one call waits while the other
\* holds the channel.  The deadlock check is on: a call that could not go on
\* would be reported.
SPECIFICATION FairSpec
CONSTANTS
    Thread = {t1, t2}
    Worker = {w1}
    Slot = {s1}
    MaxCalls = 3
    Faults = {"broken"}
    NoSlot = NoSlot
    NoEvent = NoEvent
PROPERTY EveryCallReturns
