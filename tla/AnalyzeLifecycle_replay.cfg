\* A file that is a copy of another, without any failure.
CONSTANTS
    f1 = f1
    f2 = f2
    same = same
    own1 = own1
    own2 = own2
    File = {f1, f2}
    Content = {same, own1, own2}
    Commit = {c0}
    Root = c0
    Total = 4
    Nothing = Nothing
    None = None
SPECIFICATION Spec
INVARIANT ReplayIsReparse
CONSTRAINT OneMishap
