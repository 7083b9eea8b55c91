SPECIFICATION ReportsSpec
CONSTANTS
    Clients = {c1, c2}
    Migrators = {c1}
    Forces = {TRUE, FALSE}
    Folders <- OneFolder
    Singles <- FolderId
    Digests = {a, b}
    MaxFiles = 2
    BatchSize = 1
    MaxRuns = 3
    Provers = {r}
    Exporters = {r}
INVARIANTS
    ReportsInv
    RootsHold
    ProofVerifiesAmongGroups
    ExportHoldsTogether
SYMMETRY DigestSymmetry
CHECK_DEADLOCK FALSE
