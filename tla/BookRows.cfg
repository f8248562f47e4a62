SPECIFICATION Spec
CHECK_DEADLOCK FALSE
CONSTANTS
    None = None
    o1 = o1
    o2 = o2
    Order = {o1, o2}
    Price <- MCPrice
    Volume = {1, 2}
    TakerVol = 2
    WalletOnly = {}
    Listed = {o1}
    Thin = {}
    Cex <- MCCex
    MaxChange = 2
INVARIANTS
    SentPriceIsShown
