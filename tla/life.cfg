SPECIFICATION LiveSpec
CONSTANTS
    main = main
    other = other
    NoRow = NoRow
    Procs = {p1, p2}
    Names <- TwoPods
    Main <- OnePod
    MaxMakes = 1
    Debug = FALSE
    Mode = "HOROVOD"
    Budget <- Watched
    Mixed = 1
PROPERTY ImplementsLifecycle
PROPERTY FinishFreesPods
\* A job that is over, with its users' budget spent, rests.
CHECK_DEADLOCK FALSE
