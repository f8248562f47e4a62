\* Two logins, in one run of the program or in two, with every failure.
SPECIFICATION FairSpec
CONSTANTS
    kmd = kmd
    btc = btc
    NoNode = NoNode
    Primary = kmd
    Secondary = btc
    Fault = {"start", "outage", "signal", "kill"}
    MaxSession = 2
    MaxTry = 2
CHECK_DEADLOCK FALSE
INVARIANTS
    RunningMeansOwnNode
    FirstLoginMeetsNobody
    LoggedOutIsClean
    JoinPastPolls
PROPERTIES
    AnnouncedIsShown
