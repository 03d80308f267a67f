SPECIFICATION MCSpec
CONSTANTS
    Addr = {"a1", "a2", "a3"}
    Source = {"s1", "s2"}
    Asmap = {"m1", "m2"}
    NewBucket = {0, 1}
    GetNewBucket <- MCGetNewBucket
    GetBucketPosition <- MCGetBucketPosition
    GetTriedSlot <- MCGetTriedSlot
    ADDRMAN_NEW_BUCKETS_PER_ADDRESS = 2
    ADDRMAN_SET_TRIED_COLLISION_SIZE = 2
    MaxIds = 3
    Subnet = {"n1", "n2"}
    BanThread = {"rpc", "scheduler"}
    MaxTime = 2
    Block = {0, 1, 2, 3}
    Genesis = 0
    Prev <- IndexPrev
    Proof <- IndexProof
    MaxMoves = 4
    MaxRestarts = 1
INVARIANTS AddrManIsRight  
PROPERTY IndexCatchesUp
CHECK_DEADLOCK FALSE
