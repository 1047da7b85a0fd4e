CONSTANTS
  ts = ts
  QueueNames = {ts}
  Submitters = {s1}
  Listeners = {l1}
  ListensTo <- AllOnOne
  Chunks = {c1}
  Files = {f1}
  NoFile = NoFile
  NoChunk = NoChunk
  FreshTickets = {0}
  Outcomes = {"emitted", "diagnosed", "skipped"}
  IntMax = 15
  MaxTicket = 2
SPECIFICATION Spec

INVARIANTS ErrorsReachSubmitter
CHECK_DEADLOCK FALSE
