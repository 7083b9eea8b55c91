SPECIFICATION Spec
CONSTANTS
    None = None
    Queries <- MCQueries
    Small <- MCSmall
    Exact <- MCExact
    MaxRefresh = 1
INVARIANTS
    KeysWaitForTheAnswer
    SearchInv
    WindowIsHonest
PROPERTY
    EventuallyAnswered
CHECK_DEADLOCK FALSE
