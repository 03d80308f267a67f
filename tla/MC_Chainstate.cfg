SPECIFICATION FairSpec
CONSTANTS
    t1 = t1
    t2 = t2
    Thread = {t1, t2}
    Block = {0, 1, 2, 3, 4}
    Genesis = 0
    Prev <- ForkPrev
    Proof <- ForkProof
    Verdicts <- SomeVerdicts
    MIN_BLOCKS_TO_KEEP = 1
    ConnectBatch = 1
    Invalidatable = {1, 4}
    Reconsiderable = {1, 2}
    MaxPrecious = 1
    MaxInvalidate = 1
    MaxRestart = 1
    MaxPrune = 1
    MaxOperations = 1
INVARIANTS
    
    ActiveChainIsRight
PROPERTIES
    ActivationEnds
CHECK_DEADLOCK FALSE
