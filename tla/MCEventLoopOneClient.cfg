SPECIFICATION FairSpec
CONSTANTS
  a1 = a1
  a2 = a2
  a3 = a3
  a4 = a4
  NULL = NULL
  Addr <- ThreeBlocks
  MaxEvents = 3
  Endpoints = 2
  MaxConnections = 1
  MayHangUp <- OnlyConnections
INVARIANTS
  ListMatchesHeap

  
\* The server exits, or it waits for events for ever when no address could be bound.
CHECK_DEADLOCK FALSE
