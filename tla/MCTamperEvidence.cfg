SPECIFICATION Spec
CONSTANTS
    Payloads <- MCPayloads
    NULL = NULL
    MaxLog = 3
    MaxDamage = 2
    MaxIssued = 1
INVARIANTS
    TamperInv
    DamageLocated
    KeptCopiesPin
    NoFalseAlarm
CHECK_DEADLOCK FALSE
