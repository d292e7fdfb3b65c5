SPECIFICATION Spec
CONSTANTS
    main = main
    other = other
    NoRow = NoRow
    Procs = {p1, p2}
    Names <- OnePod
    Main <- OnePod
    MaxMakes = 2
    Debug = FALSE
    Mode = "single"
    Budget <- AllButStart
    Mixed = 2
SYMMETRY ProcSymmetry
INVARIANT TypeOK
INVARIANT RowsHaveJob
INVARIANT NothingDangles
INVARIANT MadeOnceAlone
\* A job that is over, with its users' budget spent, rests.
CHECK_DEADLOCK FALSE
