\* Every external failure, up to two batches in flight besides the default one.
SPECIFICATION Spec
CONSTANTS
    kmd = kmd
    btc = btc
    A = A
    B = B
    Coin <- MCCoin
    Primary = kmd
    Secondary = btc
    Custom = {B}
    Parent <- MCParent
    Call = {c1, c2}
    Fault = {"poll", "enable", "lost", "refuse", "other"}
    MaxEnabled = 4
    MaxSelect = 1
    MaxTry = 2
SYMMETRY CallSymmetry
CHECK_DEADLOCK FALSE
INVARIANTS
    CompleteMeansDefaultsReady
    EnabledOnNode
PROPERTIES
    RegistryIsSound
