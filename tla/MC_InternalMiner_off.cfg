SPECIFICATION FairSpec
CONSTANTS
    w1 = w1
    w2 = w2
    w3 = w3
    w4 = w4
    c1 = c1
    c2 = c2
    r1 = r1
    r2 = r2
    ProcLimits = {1}
    Worker = {w1, w2}
    Controller = {c1}
    Caller = {r1}
    SleepIsEnough = TRUE
    MaxOn = 1
    MaxOff = 1
    MaxTip = 2
PROPERTY OffTurnsOff
CHECK_DEADLOCK FALSE
