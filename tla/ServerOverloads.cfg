SPECIFICATION Spec
CONSTANTS
    Worker = {w1, w2}
    Request <- OverloadedRequests
    serviceMap <- TestServices
    Methods <- TestMethods
    Subclass <- Unrelated
    Assignable <- Unboxing
    Threshold = 12
    NoEvent = NoEvent
    NoMethod = NoMethod
INVARIANTS InvokesRequested
