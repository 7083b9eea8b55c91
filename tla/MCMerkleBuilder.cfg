SPECIFICATION BuilderSpec
CONSTANTS
    FileDigests = {a, b}
    MaxLeaves = 9
INVARIANTS
    BuilderInv
    ProofsAreExact
    ConsistencyIsExact
CHECK_DEADLOCK FALSE
