\* Two local variants, one remote embedder, a symbol and a file.
CONSTANTS
    sym = sym
    file = file
    p = p
    q = q
    fp32 = fp32
    Node = {sym, file}
    TierOf <- MCTierOf
    Chunk = {p, q}
    Texts <- MCTexts
    Absent = Absent
    Local = {fp32, int8}
    Remote = {http}
    Requests <- MCRequests
    None = None
SPECIFICATION Spec
CONSTRAINT FileTexts
INVARIANT NoMixedStore
