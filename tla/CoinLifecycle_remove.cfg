SPECIFICATION Spec
CONSTANTS
    kmd = kmd
    btc = btc
    A = A
    B = B
    Coin <- MCCoin
    Primary = kmd
    Secondary = btc
    Custom = {B}
    Parent <- MCParent
    Call = {c1, c2}
    Fault = {"refuse"}
    MaxEnabled = 4
    MaxSelect = 1
    MaxTry = 2
CHECK_DEADLOCK FALSE
INVARIANTS
    RemovedCoinIsDisabled
