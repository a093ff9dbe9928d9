SPECIFICATION FairSpec
CONSTANTS
  PageSize = 2
  SizeModulus = 16
  MaxUnits = 2
  MaxReply = 3
  SendSpace = 2
  PeerMay <- HalfClosingPeer
PROPERTIES
  PeerCloseFreesConnection
\* A connection may stop: it is closed, or its peer stays silent for ever.
CHECK_DEADLOCK FALSE
