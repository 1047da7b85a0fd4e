CONSTANTS
  ts = ts
  QueueNames = {ts}
  Submitters = {s1, s2}
  Listeners = {l1, l2}
  ListensTo <- AllOnOne
  Chunks = {c1, c2}
  Files = {f1, f2}
  NoFile = NoFile
  NoChunk = NoChunk
  FreshTickets <- Fresh
  Outcomes = {"emitted", "diagnosed", "skipped", "thrown"}
  IntMax = 15
  MaxTicket = 3
SPECIFICATION FairSpec
INVARIANTS TypeOK CompletesOwnJob HandedJobAlive QueueHoldsLiveJobs OwnAnswer NoOvertaking
PROPERTIES EveryJobAnswered ServiceImplemented
CHECK_DEADLOCK FALSE
