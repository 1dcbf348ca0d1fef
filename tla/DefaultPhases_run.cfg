\* The default pipeline and all small lists of phases.
CONSTANTS
    Alphabet <- DefaultAlphabet
    Pipelines <- AllPipelines
SPECIFICATION FairSpec
INVARIANTS
    CycleIsReal
    NeverUnsorted
    AlphabeticOrder
    ReadsServed
    KeptOrder
PROPERTIES
    Refines
    Ends
CHECK_DEADLOCK FALSE
