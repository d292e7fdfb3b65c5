SPECIFICATION Spec
CONSTANTS
    main = main
    NoRow = NoRow
    NoOwner = NoOwner
    Servers = {p1, p2}
    Poller = poller
    Names <- One
    Main <- One
    MaxMakes = 1
    Debug = FALSE
    Mode = "single"
    Budget <- Undisturbed
    Mixed = 0
PROPERTY FinishedStays
\* A job that is over, with its users' budget spent, rests.
CHECK_DEADLOCK FALSE
