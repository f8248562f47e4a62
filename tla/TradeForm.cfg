\* One coin of each kind, two orders of the network and two answers of mm2.
SPECIFICATION Spec
CONSTANTS
    kmd = kmd
    btc = btc
    A = A
    W = W
    None = None
    Coin = {kmd, btc, A, W}
    Primary = kmd
    Secondary = btc
    WalletOnly = {W}
    Empty = {A}
    Token = {A}
    Poor = {}
    Offer <- MCOffer
    Taker <- MCTaker
    Target <- MCTarget
    Share = 50
    Price = {1}
    Volume = {1, 3}
    Slot = {c1, c2}
    MaxUser = 4
SYMMETRY SlotSymmetry
CHECK_DEADLOCK FALSE
INVARIANTS
    VolumeWithinMax
    SentIsShown
    BusyMeansOrderInFlight
