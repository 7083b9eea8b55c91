CONSTANTS
    N = 6
    Folders <- MCFolders
    Jobs = 2
    BatchFiles = 2
    BatchBytes = 2
    BigFile = 3
    RowBatch = 2
SPECIFICATION Spec
INVARIANT IngestInv
PROPERTY EscIsHeard
PROPERTY Returns
PROPERTY ImplementsSerial
