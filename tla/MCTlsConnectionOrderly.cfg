SPECIFICATION FairSpec
CONSTANTS
  Script <- Tls12
  RecordUnits = 2
  SendSpace = 2
  ReceiveSpace = 3
  MaxAsked = 2
  MaxRecords = 2
  PeerMay <- OrderlyPeer
INVARIANTS
  WaitsForInput
PROPERTIES
  HandshakeCompletes
  ImplementsExchange
\* A connection may stop: it is closed, or its peer stays silent for ever.
CHECK_DEADLOCK FALSE
