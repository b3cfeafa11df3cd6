CONSTANTS
  Consumers = {c1, c2}
  None = None
  Messages = 3
  CommitModulo = 2
  OperationMaxRetries = 2
  LockExists = TRUE
  MaxFailures = 1
  MaxAssignments = 4
SPECIFICATION Spec
SYMMETRY ConsumerSymmetry
INVARIANTS
  OneValidToken
  CommittedIsApplied
  RewritesAreFollowedInTime
CHECK_DEADLOCK FALSE
