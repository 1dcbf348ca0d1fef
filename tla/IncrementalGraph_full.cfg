\* A class with two subclasses, four other files; no indexer is installed.
CONSTANTS
    Source = {1, 2, 3, 4, 5, 6, 7}
    Versions <- ClassFiles
    Deleted = Deleted
    TopLevel = {}
    Indexer = FALSE
    NoIndex = NoIndex
SPECIFICATION EdgeSpec
INVARIANT IncrementalIsFull
