\* Requests that hit and miss the cache and fail in every way, to classes that
\* share names; the map resizes from one entry on (12 in HashMap), so that a
\* lookup meets a resize.
SPECIFICATION FairSpec
CONSTANTS
    Worker = {w1, w2}
    Request <- AllRequests
    serviceMap <- SharingServices
    Methods <- SharingMethods
    Subclass <- Hierarchy
    Assignable <- Unboxing
    Threshold = 1
    NoEvent = NoEvent
    NoMethod = NoMethod
INVARIANTS TypeOK AtMostOnce InvokesRequested OnlyNamesakesSpoil
PROPERTY EveryRequestHandled
