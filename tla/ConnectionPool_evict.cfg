\* Two repositories compete for one slot of the cache.
CONSTANTS
    Key = {k1, k2}
    Call = {c1, c2, c3}
    Entry = {e1, e2, e3}
    Max = 1
    LongCalls = TRUE
    NoKey = NoKey
    NoEntry = NoEntry
SPECIFICATION Spec
SYMMETRY Symmetry
INVARIANTS
    CachedIsOpen
    CountCovers
    InUseIsOpen
    NoLeak
    ShutdownDrains
PROPERTY ClosedUnreferenced
CHECK_DEADLOCK FALSE
