CONSTANTS
  Workspaces = {w1, w2}
  NoWorkspace = NoWorkspace
  Keys = {k1}
  TxIds = {t1, t2, t3, t4}
  NoTxId = NoTxId
  NoRow = NoRow
  Tokens <- MCTokens
  CommitModulo = 2
  OperationMaxRetries = 2
  ConsumerMaxRetries = 2
  UnderflowRejected = TRUE
  MaxEvents = 4
  MaxFailures = 2
  MaxProcesses = 3
SPECIFICATION Spec
INVARIANTS
  CommittedIsApplied
  NoStaleTuples
  LiveIsReplicated
  TokenCoversCreate
PROPERTIES
  EventuallyCaughtUp
CHECK_DEADLOCK FALSE
