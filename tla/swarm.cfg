SPECIFICATION HFairSpec
CONSTANTS
    main = main
    NoRow = NoRow
    NoOwner = NoOwner
    Servers = {p1, p2}
    Poller = poller
    Names <- One
    Main <- One
    MaxMakes = 1
    Debug = FALSE
    Mode = "single"
    Budget <- Everything
    Mixed = 1
INVARIANT TypeOK
INVARIANT ScriptsStay
INVARIANT NamesFree
PROPERTY PollerSparesRunning
PROPERTY SettlesOrExplained
\* A job that is over, with its users' budget spent, rests.
CHECK_DEADLOCK FALSE
