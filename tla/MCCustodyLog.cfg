SPECIFICATION Spec
CONSTANTS
    Writers = {w1, w2}
    Payloads <- MCPayloads
    NULL = NULL
    MaxLog = 3
INVARIANTS
    LogVerifies
    SavedIsStored
    IInv
PROPERTIES
    ConflictMeansGrowth
    ImplementsAppendLog
