\* The entry point comment with two triggers: the second bail exits at once.
CONSTANTS
    Key = {k1, k2}
    Call = {c1, c2}
    Entry = {e1, e2}
    Max = 1
    LongCalls = TRUE
    NoKey = NoKey
    NoEntry = NoEntry
    Trigger = {sigint, stdinClose}
SPECIFICATION ServerSpec
INVARIANT DrainsBeforeExit
CHECK_DEADLOCK FALSE
