SPECIFICATION RFairSpec
CONSTANTS
    main = main
    other = other
    NoRow = NoRow
    Procs = {p1, p2}
    Names <- OnePod
    Main <- OnePod
    MaxMakes = 1
    Debug = FALSE
    Mode = "single"
    Budget <- ToldOf
    Mixed = 1
    Conc = 2
INVARIANT ReportsOK
INVARIANT NewestIsTrue
PROPERTY PaiLearns
PROPERTY NoFalseRevival
\* A job that is over, with its users' budget spent, rests.
CHECK_DEADLOCK FALSE
