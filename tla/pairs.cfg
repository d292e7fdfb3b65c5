SPECIFICATION HFairSpec
CONSTANTS
    main = main
    other = other
    NoRow = NoRow
    Procs = {p1, p2}
    Names <- OnePod
    Main <- OnePod
    MaxMakes = 1
    Debug = TRUE
    Mode = "single"
    Budget <- Disturbed
    Mixed = 2
INVARIANT FinishedNotFailed
PROPERTY SettlesOrExplained
PROPERTY CancelFreesPods
\* A job that is over, with its users' budget spent, rests.
CHECK_DEADLOCK FALSE
