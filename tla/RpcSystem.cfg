\* Two callers with a channel each, two server workers; connections are
\* refused and lost.  The deadlock check is on.
SPECIFICATION SystemSpec
CONSTANTS
    Thread = {t1, t2}
    Worker = {w1}
    Slot = {s1, s2}
    MaxCalls = 2
    Faults = {"refused", "broken"}
    NoSlot = NoSlot
    NoEvent = NoEvent
    ServerWorker = {v1, v2}
    Remote <- Calls
    Proxy <- Proxies
    serviceMap <- OneService
    Methods <- TwoMethods
    Subclass <- OneClass
    Assignable <- SameSignature
    Threshold = 12
    NoMethod = NoMethod
    ReturnsNull <- NullMethods
INVARIANT SystemTypeOK
PROPERTIES ImplementsClientCall KeepsPromise
