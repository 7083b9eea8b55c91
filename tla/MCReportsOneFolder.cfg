SPECIFICATION ReportsSpec
CONSTANTS
    Clients = {c1}
    Migrators = {c1}
    Forces = {FALSE}
    Folders <- OneFolder
    Singles <- OneSingle
    Digests = {a, b}
    MaxFiles = 2
    BatchSize = 2
    MaxRuns = 1
    Provers = {p}
    Exporters = {}
INVARIANT ProofVerifies
CHECK_DEADLOCK FALSE
