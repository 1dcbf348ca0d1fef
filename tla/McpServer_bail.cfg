\* Two repositories, one slot, two triggers: SIGINT and the closing of stdin.
CONSTANTS
    Key = {k1, k2}
    Call = {c1, c2}
    Entry = {e1, e2}
    Max = 1
    LongCalls = TRUE
    NoKey = NoKey
    NoEntry = NoEntry
    Trigger = {sigint, stdinClose}
SPECIFICATION ServerSpec
INVARIANT OneBailDrains
PROPERTIES
    BailExits
    ServedOrExited
    ParkedIsClosedOrExited
CHECK_DEADLOCK FALSE
