SPECIFICATION WitnessSpec
CONSTANTS
    None = None
    Logs = {l1}
    Leaves = {a, b, x}
    Histories <- ForksAndGrowth
    a = a
    b = b
    x = x
    Witnesses = {w1, w2, w3}
    Runs = {w1, w2, w3}
    Owner <- OneRunEach
    ProofFiles <- GrowthProofs
    MaxFiles = 4
    Quorum = 2
SYMMETRY WitnessSymmetry
INVARIANTS
    OneHistory
    StateCoversCosigned
    RetryAccepted
    AcceptedLogsAgree
