SPECIFICATION FairEventsSpec
CONSTANTS
    p1 = p1
    s1 = s1
    s2 = s2
    c1 = c1
    c2 = c2
    Producer = {p1}
    Servicer = {s1, s2}
    MaxCallbacks = 2
    Interface = {c1, c2}
    Iterator = {p1, s1, s2, "shutdown"}
    MaxEntries = 2
INVARIANTS
    DeliveryIsOrdered
    SubscribersAreSafe
PROPERTIES
    SyncIsBarrier
    
CHECK_DEADLOCK FALSE
