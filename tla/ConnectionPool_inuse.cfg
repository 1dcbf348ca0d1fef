\* The header comment: an eviction must not close a store that is in use.
CONSTANTS
    Key = {k1, k2}
    Call = {c1, c2}
    Entry = {e1, e2, e3, e4}
    Max = 1
    LongCalls = FALSE
    NoKey = NoKey
    NoEntry = NoEntry
SPECIFICATION Spec
SYMMETRY Symmetry
INVARIANT EvictionSparesInUse
CHECK_DEADLOCK FALSE
