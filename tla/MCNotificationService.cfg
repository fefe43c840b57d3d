SPECIFICATION FairSpec
CONSTANTS
    Notifications = {n1, n2}
    Sends = {s1}
    Observers = {fcm}
    Capacity = 1
    MaxTime = 1
    MaxFaults = 1
    None = None
INVARIANTS
    NeverEarly
    TriedOncePerFault
    SentWasTried
PROPERTIES
    DueIsSettled
CHECK_DEADLOCK FALSE
