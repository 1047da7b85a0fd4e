CONSTANTS
  Clients = {c1, c2, c3}
  NoClient = NoClient
  Descriptors = {d1, d2}
  Requests <- Lines
  Halves <- HalvesOf
SPECIFICATION FairSpec
INVARIANTS TypeOK OwnResponse SocketsClosed CountersExact PageConsistent AnswerFitsRequest
PROPERTIES EveryClientServed
CHECK_DEADLOCK FALSE
