SPECIFICATION HFairSpec
CONSTANTS
    main = main
    other = other
    NoRow = NoRow
    Procs = {p1, p2}
    Names <- TwoPods
    Main <- OnePod
    MaxMakes = 1
    Debug = FALSE
    Mode = "HOROVOD"
    Budget <- OfTwoMpi
    Mixed = 2
INVARIANT FinishedNotFailed
PROPERTY SettlesOrExplained
\* A job that is over, with its users' budget spent, rests.
CHECK_DEADLOCK FALSE
