SPECIFICATION Spec
CONSTANTS
    main = main
    other = other
    NoRow = NoRow
    Procs = {p1, p2}
    Names <- OnePod
    Main <- OnePod
    MaxMakes = 2
    Debug = FALSE
    Mode = "single"
    Budget <- StartedTwice
    Mixed = 1
INVARIANT WorkersMadeOnce
\* A job that is over, with its users' budget spent, rests.
CHECK_DEADLOCK FALSE
