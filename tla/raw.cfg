CONSTANTS
  Requests = {r1, r2}
  Others = {o1, o2}
  NoTxId = NoTxId
  MaxConsecutiveFailures = 0
  MaxLosses = 1
SPECIFICATION Spec
INVARIANTS
  NotifiedIsReplicated
  SubscriptionsMatch
PROPERTIES
  EventuallyNotified
CHECK_DEADLOCK FALSE
