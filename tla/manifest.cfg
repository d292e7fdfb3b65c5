SPECIFICATION SSpec
CONSTANTS
    Jobs <- AllJobs
    Stripped <- MCStripped
INVARIANT RefusedOnlyForClash
INVARIANT DataInPlace
INVARIANT NeverRefused
INVARIANT DirectoriesInPlace
\* The start of the worker goes on elsewhere.
CHECK_DEADLOCK FALSE
