CONSTANTS
    Shells = {s1, s2}
    None = None
    Empty = Empty
    Torn = Torn
    MaxEntries = 3
    MaxEvidence = 1
    Troubles <- MCTroubles
    Meeting <- MCMeeting
    MeetingEntries = 2
    StartsOverAnytime = FALSE
SPECIFICATION Spec
SYMMETRY Symmetry
INVARIANT RecordsInv
PROPERTY CutStaysSeen
PROPERTY RememberedStays
CHECK_DEADLOCK FALSE
