SPECIFICATION FairSpec
CONSTANTS
    a = a
    b = b
    d = d
    good = good
    bad = bad
    None = None
    Body <- MCBody
    Work <- MCWork
    Bits <- MCBits
    GenesisBits = 1
    HashBit <- MCHashBit
    Valid <- MCValid
    Peer = {good, bad}
    Honest = {good}
    Served <- MCServed
    Tips <- MCTips
    Permitted <- UpOnly
    MinimumChainWork = 5
    NearTip = 1
    Period = 1
    BufferSize = 2
    MaxHeaders = 2
    MaxCommitments = 5
    MaxToAnnounce = 1
INVARIANT SyncStateIsRight

    
    
