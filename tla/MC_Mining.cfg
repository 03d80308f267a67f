SPECIFICATION MCSpec
CONSTANTS
    w1 = w1
    w2 = w2
    c1 = c1
    r1 = r1
    ProcLimits = {1, 2}
    Worker = {w1, w2}
    Controller = {c1}
    Caller = {r1}
    SleepIsEnough = TRUE
    MaxOn = 1
    MaxOff = 1
    MaxTip = 3
    Spacing = 600
    Timespan = 3600
    Width = 20
    Digit = 16
    Unit = 100
    Start <- OnSchedule
    Steps <- SomeSteps
    MaxBlocks = 9
    Block = {0, 1, 2, 3, 4, 5, 6, 7}
    Genesis = 0
    Prev <- MCTreePrev
    Proof <- MCTreeProof
    MedianTime <- MCMedianTime
    nPeriod = 2
    nThreshold = 2
    Deployments <- MCDeployments
SYMMETRY Symmetry
INVARIANTS
    
    AimsAtSchedule
    VersionBitsAreRight

    
    
CHECK_DEADLOCK FALSE
