SPECIFICATION FairSpec
CONSTANTS
    kmd = kmd
    band = band
    usd = usd
    eur = eur
    p1 = p1
    p2 = p2
    Coin = {kmd, band}
    Oracled = {band}
    Fiat = {usd, eur}
    Crypto = {kmd}
    Dollar = usd
    MaxQuote = 2
    MaxTry = 2
    Default = {kmd}
    Pool = {p1, p2}
    gui = gui
    Gui = gui
    MaxBal = 2
    MaxCoin = 2
    Scenarios <- MCScenarios
CHECK_DEADLOCK FALSE
INVARIANTS
    CheckedAreCounted
PROPERTIES
    PageCatchesUp
    OrderFollowsMarket
