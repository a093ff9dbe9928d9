SPECIFICATION Spec
CONSTANTS
  Builds <- DebugBuild
  MaxSize = 2
  MaxRequests = 1
INVARIANTS
  EmptyBodyNeverSet
\* A connection ends after MaxRequests requests, or with the process.
CHECK_DEADLOCK FALSE
