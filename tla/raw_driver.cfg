CONSTANTS
  Requests = {r1, r2}
  Others = {o1}
  NoTxId = NoTxId
  MaxConsecutiveFailures = 1
  MaxLosses = 1
SPECIFICATION Spec
PROPERTIES
  NotifyReconnects
CHECK_DEADLOCK FALSE
