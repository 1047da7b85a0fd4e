SPECIFICATION Spec
CONSTANTS
  orders = orders
  replies = replies
  empty = empty
  Topics <- MCTopics
  Invalid <- MCInvalid
  MaxConfigures = 2
  MaxShutdowns = 2
  MaxListed = 2
  MaxLog = 1
  MaxLost = 1
SYMMETRY Existing
INVARIANTS TypeOK  SubscribedAsTold
PROPERTY Released
CHECK_DEADLOCK FALSE
