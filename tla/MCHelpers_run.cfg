\* Eight small machines; as many repositories as the pool has room for.
CONSTANTS
    Machine = {"pool", "parse", "scan", "cobol", "registry", "download", "embed", "edges"}
    Key = {k1, k2}
    Call = {c1, c2}
    Entry = {e1, e2, e3}
    Max = 2
    LongCalls = FALSE
    NoKey = NoKey
    NoEntry = NoEntry
    Dispatches <- MCDispatches
    Threads = 2
    Scanners = 4
    Workers = 2
    Stubborn = {2}
    Batches <- MCBatches
    Records <- MCRecords
    Process = {x, y}
    Repo = {r1, r2, r3}
    r1 = r1
    r2 = r2
    r3 = r3
    Name = {n1, n2}
    n1 = n1
    n2 = n2
    NameOf <- MCNameOf
    NoRepo = NoRepo
    Setup = {p, q}
    Version = {v1, v2}
    File = {1, 2, 3, 4}
    Blocks = 2
    Tries = 2
    Loads <- MCLoads
    Lane = {1, 2}
    MaxRetries = 2
    None = None
    Source = {1, 2, 3, 4, 5, 6, 7, 8, 9, 10}
    Versions <- CallFiles
    Deleted = Deleted
    TopLevel = {2}
    Indexer = TRUE
    NoIndex = NoIndex
SPECIFICATION AllSpec
CONSTRAINT NoOverlapYet
INVARIANTS
    FitsNoOverlap
    FitsExactCount
    DispatchExact
    ResultsComplete
    FilesAccounted
    ListedIffIndexed
    FinalIsWhole
    WavesExact
    CallsCurrent
    SparedByCarried
PROPERTIES
    AcquireReturns
    ScanReturns
    BatchesSettle
    ReportIsTrue
    WavesEnd
CHECK_DEADLOCK FALSE
