SPECIFICATION Spec
CONSTANTS
    Block = {0, 1, 2, 3}
    Genesis = 0
    Prev <- ForkPrev
    Proof <- UnitProof
    OutPoint = {"c1:0", "x:0", "x:1"}
    Tx = {"c1", "x", "y"}
    Inputs <- MCInputs
    Outputs <- MCOutputs
    Vtx <- ForkVtx
    MaxFlush = 2
    MaxCrash = 2
INVARIANTS
    CoinsMatchTip
    
    
