SPECIFICATION Spec
CONSTANTS
  PageSize = 2
  SizeModulus = 16
  MaxUnits = 3
  MaxReply = 3
  SendSpace = 2
  PeerMay <- PipeliningPeer
INVARIANTS
  NoRequestSwallowed
\* A connection may stop: it is closed, or its peer stays silent for ever.
CHECK_DEADLOCK FALSE
