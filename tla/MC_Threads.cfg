SPECIFICATION MCSpec
CONSTANTS
    w1 = w1
    w2 = w2
    c1 = c1
    c2 = c2
    c3 = c3
    c4 = c4
    Master = Master
    Worker = {w1, w2}
    Check = {c1, c2, c3, c4}
    Bad = {c3}
    BatchSize = 2
    StopWhileBusy = FALSE
    Request = {"r1", "r2", "r3"}
    HttpWorker = {w1, w2}
    maxDepth = 1
    MaxNodes = 2
    m_max_outbound = 1
    nMaxInbound = 1
INVARIANTS QueueIsRight ConnectionsAreSafe
PROPERTIES WaitReturns RequestsAreAnswered ConnectionsEnd
CHECK_DEADLOCK FALSE
