\* One kind of interference per budget: histories, balances, requests.
SPECIFICATION FairSpec
CONSTANTS
    None = None
    a = a
    b = b
    Coin = {a, b}
    Erc = {a}
    FeesCoin <- MCFeesCoin
    AutoCoin = b
    MaxAmount = 2
    Limit = 1
    Tx <- MCTx
    Scenarios <- MCScenarios
    Fault = {"lost", "refused"}
CHECK_DEADLOCK FALSE
INVARIANTS
    BusyMeansWaiting
    ConfirmedHasTransaction
PROPERTIES
    BalancesCatchUp
    HistoryFetchEnds
    AvailabilityCatchesUp
