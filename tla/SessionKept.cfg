SPECIFICATION Spec
CONSTANTS
    Rnds = {r1, r2, r3}
    NoRnd = NoRnd
    MaxUpsets = 1
SYMMETRY RndSymmetry
INVARIANTS
    NothingKeptFromOldSession
