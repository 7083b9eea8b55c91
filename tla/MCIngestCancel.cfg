CONSTANTS
    N = 2
    Folders <- MCTwoFiles
    Jobs = 1
    BatchFiles = 2
    BatchBytes = 2
    BigFile = 3
    RowBatch = 2
SPECIFICATION Spec
INVARIANT NothingRecorded
