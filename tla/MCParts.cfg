SPECIFICATION PartsSpec
CONSTANTS
  Builds <- BothBuilds
  MaxSize = 2
  MaxRequests = 3
  Described <- SomeDescriptions
  Lengths <- SomeLengths
  Messages <- AnyMessage
  Trails <- AnyTrail
  MaxMessages = 2
  RangeBuilds <- BothBuilds
  SizeModulus = 16
  RangeMaxSize = 2
  MaxPos = 3
  MaxSpecs = 3
  Script <- Tls13
  RecordUnits = 3
  SendSpace = 1
  ReceiveSpace = 3
  MaxAsked = 3
  MaxRecords = 2
  PeerMay <- AnyPeer
  Sessions = {s1, s2, s3}
  MayFail <- SomeCalls
  Names <- TwoNames
  Depth = 2
  MaxMoves = 1
  MaxServed = 2
  Triples = 1
  Rounds = 2
  Words <- SomeWords
INVARIANTS
  PartsTypeOK
  HeadersSorted
  ContentLengthMatchesBody
  PartialContentDescribed
  ResponseOwnsAll
  WritesWhatItMeasured
  ParsedIsSent
  VerdictIsSettled
  MemoryBehindIgnored
  RequestOwnsAll
  OverlapIsFull
  ResultWasAskedFor
  InFileWhenAsked
  RecordsIntact
  
  NothingHeld
  NoBitLost
PROPERTIES
  
  GuardIsExact
\* A connection ends, a header is parsed once, the process exits.
CHECK_DEADLOCK FALSE
