SPECIFICATION Spec
CONSTANTS
    Inputs <- MCInputs
    NumOutputs <- MCNumOutputs
    Genesis <- MCGenesis
    Fee <- MCFee
    Size <- MCSize
    Signals = {"p", "q"}
    FinalAt <- MCFinalAt
    FullRbf = FALSE
    MaxReplacements = 100
    IncrementalFee = 1000
    Scenarios <- MCScenarios
INVARIANTS
    PoolIsRight
PROPERTIES
    NoChurn
    ReplacementPays
