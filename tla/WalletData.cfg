SPECIFICATION AnySpec
CHECK_DEADLOCK FALSE
CONSTANTS
    None = None
    Absent = Absent
    Torn = Torn
    w1 = w1
    w2 = w2
    a = a
    b = b
    x = x
    y = y
    Wallet = {w1, w2}
    Official = {a, b}
    OnByDefault = {a}
    Custom = {x, y}
    Qrc = {y}
    Fiat = {"USD", "EUR"}
    Crypto = {"BTC"}
    Shipped = "USD"
    Language = {"en", "fr"}
    English = "en"
    Name = {"", "a", "b"}
    Empty = ""
    Slot = {1, 2, 3}
    Type = {"coin", "token", "ERC20", "UTXO"}
    TypeOf <- TypeOfSlot
    KindOf <- Kinds
    Label <- LabelOfSlot
    Configs <- KnownTypes
    CoinType = {"ERC20", "UTXO"}
    Text = {1, 2}
    Tag = {1}
    MaxSteps = 7
    Blank = ""
    ReasonOf <- Reasons
    Converted <- Mixed
    Scenarios <- Checked
    Standings <- MCStandings
    Entered = {"", "other", "lower 1", "lower 2", "address 1", "address 2"}
INVARIANTS
    MemoryIsStored
    CustomCoinsAreReAdded
    FileIsBook
    ShownIsStored
    OfferedHaveAnAddress
    AddressesStayHome
    VerdictIsOfText
PROPERTY
    ChoicesAreKept
