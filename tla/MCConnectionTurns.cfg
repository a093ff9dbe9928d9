SPECIFICATION FairSpec
CONSTANTS
  PageSize = 2
  SizeModulus = 16
  MaxUnits = 4
  MaxReply = 3
  SendSpace = 2
  PeerMay <- TurnTakingPeer
INVARIANTS
  NoRequestSwallowed
  WakeupPending
PROPERTIES
  EveryRequestAnswered
  ImplementsExchange
\* A connection may stop: it is closed, or its peer stays silent for ever.
CHECK_DEADLOCK FALSE
