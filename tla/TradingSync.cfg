SPECIFICATION FairSpec
CONSTANTS
    kmd = kmd
    btc = btc
    A = A
    b1 = b1
    b2 = b2
    s1 = s1
    s2 = s2
    None = None
    Coin = {kmd, btc, A}
    Primary = kmd
    Secondary = btc
    Pair <- SameBase
    Mode = {"Sell", "Buy"}
    BookCall = {b1, b2}
    ScanCall = {s1, s2}
    Fault = {"lost", "partial"}
    MaxPending = 1
    Scenarios <- RacingRequests
CHECK_DEADLOCK FALSE
INVARIANTS
    BusyMeansScanning
PROPERTIES
    BookCatchesUp
    BestOrdersCatchUp
