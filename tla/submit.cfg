SPECIFICATION Spec
CONSTANT Jobs <- AllJobs
INVARIANT TransDefined
INVARIANT OneMain
INVARIANT WorkersKept
\* A request ends with its response.
CHECK_DEADLOCK FALSE
