SPECIFICATION Spec
CONSTANTS
    Ids <- MCTwoIds
    NoFile = {2}
    PageSize = 1
    BlockSize = 2
    MaxLoads = 2
    MaxChanges = 2
    ViewOrder <- MCViews
    Height = 2
INVARIANTS
    ScreenInv
    CleanIsTrue
    RowsKeepTheirVerdict
PROPERTIES
    Answered
    SupersededStops
CHECK_DEADLOCK FALSE
