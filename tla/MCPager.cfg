SPECIFICATION PagerSpec
CONSTANTS
    Totals <- MCTotals
    Heights <- MCHeights
INVARIANTS
    PagerInv
PROPERTIES
    ImplementsSelection
    MinimalScroll
