SPECIFICATION FairSpec
CONSTANTS
    Events = {e1, e2, e3}
    Observers = {fcm}
    Workers = {w1, w2}
    Capacity = 1
    ZeroEvent = zero
INVARIANTS
    Conservation
    AtMostOnce
    FanoutComplete
PROPERTIES
    QuietAfterShutdown
    KeepsPromise
    AcceptedIsHandled
    ShutdownReturns
CHECK_DEADLOCK FALSE
