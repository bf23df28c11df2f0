\* Every fault, more threads than channels: calls wait for each other's
\* channel, time out, are answered late and run into dead channels.
SPECIFICATION Spec
CONSTANTS
    Thread = {t1, t2, t3}
    Worker = {w1, w2}
    Slot = {s1, s2}
    MaxCalls = 3
    Faults = {"refused", "interrupted", "broken"}
    NoSlot = NoSlot
    NoEvent = NoEvent
SYMMETRY Symmetry
INVARIANTS TypeOK OwnResponse PutNeverBlocks NoOrphanEntry PoolConserved
PROPERTY NoResponseDropped
CHECK_DEADLOCK FALSE
