SPECIFICATION BidsFairSpec
CONSTANTS
    Uuid = {o1, o2}
    BidPrice = {1, 2}
    Events <- MCEvents
    MaxFlight = 2
    MaxChange <- MCChange
CHECK_DEADLOCK FALSE
INVARIANTS
    SelectionFollowsRows
PROPERTIES
    RefreshIsExact
    MovesToBetterPrice
    SelectionEventuallyReal
