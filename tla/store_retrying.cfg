CONSTANTS
  Workspaces = {w1}
  NoWorkspace = NoWorkspace
  Keys = {k1}
  TxIds = {c1, s1, s2, s3}
  NoTxId = NoTxId
  NoRow = NoRow
  Tokens <- MCTokens
  Handlers = {h1, h2}
  ServerTxIds = {s1, s2, s3}
  IdempotencyCheckEnabled = FALSE
  MaxSerializationRetries = 2
  NoRequest = NoRequest
SPECIFICATION Spec
INVARIANTS
  OneEventPerReport
PROPERTIES
  EveryRequestAnswered
CHECK_DEADLOCK FALSE
