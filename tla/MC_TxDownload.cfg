SPECIFICATION MCSpec
CONSTANTS
    p1 = p1
    p2 = p2
    Peer = {p1, p2}
    Tx = {"a", "A", "b", "bx", "c", "d", "e"}
    TxidOf <- MCTxidOf
    Prevouts <- MCPrevouts
    HashOrder <- MCHashOrder
    Roots = {"R"}
    Quality <- MCQuality
    FinalAt <- MCFinalAt
    ExpireTime = 3
    ExpireInterval = 1
    Scenarios <- MCScenarios
    Block = {0, 1, 2, 3}
    Genesis = 0
    Prev <- MCTreePrev
    Proof <- MCTreeProof
    NodeId = {"h", "o"}
    HonestNode = {"h"}
    HonestTip = 3
    BLOCK_DOWNLOAD_WINDOW = 1
    MAX_BLOCKS_IN_TRANSIT_PER_PEER = 2
    BLOCK_STALLING_TIMEOUT = 0
    BLOCK_DOWNLOAD_TIMEOUT_BASE = 0
    BLOCK_DOWNLOAD_TIMEOUT_PER_PEER = 1
    MaxFetch = 1
    MaxSent = 2

    
    
PROPERTIES
    OrphanResolved
    HonestBlocksArrive
CHECK_DEADLOCK FALSE
