SPECIFICATION FairSpec
CONSTANTS
    Peer = {1, 2, 3}
    Tx = {1}
    Prio <- MCPrio
    MaxTime = 1
    Interval = 1
    MaxBack = 1
INVARIANT TrackerIsSane
PROPERTIES
    NotAskedTwice
    Served
