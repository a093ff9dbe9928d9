SPECIFICATION FairSpec
CONSTANTS
  a1 = a1
  a2 = a2
  a3 = a3
  a4 = a4
  NULL = NULL
  Addr <- FourBlocks
  MaxEvents = 3
  Endpoints = 1
  MaxConnections = 2
  MayHangUp <- AnyDescriptor
INVARIANTS
  TypeOK
  NoStaleEvent
  EpollMatchesHeap
PROPERTIES
  
  NoBatchAfterStop
\* The server exits, or it waits for events for ever when no address could be bound.
CHECK_DEADLOCK FALSE
