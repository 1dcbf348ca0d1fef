\* Index, registry and scan stage: two files of four, two contents each, two commits.
CONSTANTS
    f1 = f1
    f2 = f2
    same = same
    own1 = own1
    own2 = own2
    File = {f1, f2}
    Content = {same, own1, own2}
    Commit = {c0, c1}
    Root = c0
    Total = 4
    Nothing = Nothing
    None = None
SPECIFICATION Spec
SYMMETRY Swap
INVARIANTS
    GraphMatchesState
    CacheIsHonest
    UpToDateIsHead
    ForceRepairs
    FindingsOfIndex
CONSTRAINTS
    OfItsOwn
    OneMishap
    OneEdit
