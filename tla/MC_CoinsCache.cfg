SPECIFICATION Spec
CONSTANTS
    OutPoint = {o1, o2}
    c1 = c1
    c2 = c2
    Coin = {c1, c2}
    Spent = Spent
    NoEntry = NoEntry
    Block = {b1, b2}
    NullBlock = NullBlock
    DynamicMemoryUsage <- MCUsage
INVARIANTS
    CacheIsSound
    UsageExact
PROPERTY ActsAsMap
