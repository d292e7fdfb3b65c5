SPECIFICATION FairSpec
CONSTANTS
    Workers <- OneServer
    Gpus <- Uneven
    NameBefore <- ByDigits
    Budget <- Disturbed
    Mixed = 4
INVARIANT TypeOK
INVARIANT ToldComplete
INVARIANT SameCluster
INVARIANT HasAddress
INVARIANT HostsInOrder
PROPERTY GroupForms
\* When every script is told, nothing more happens here.
CHECK_DEADLOCK FALSE
