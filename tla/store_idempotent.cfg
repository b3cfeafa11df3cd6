CONSTANTS
  Workspaces = {w1}
  NoWorkspace = NoWorkspace
  Keys = {k1}
  TxIds = {c1, s1, s2, s3}
  NoTxId = NoTxId
  NoRow = NoRow
  Tokens <- MCTokens
  Handlers = {h1, h2, h3}
  ServerTxIds = {s1, s2, s3}
  IdempotencyCheckEnabled = TRUE
  MaxSerializationRetries = 2
  NoRequest = NoRequest
SYMMETRY HandlerSymmetry
SPECIFICATION Spec
INVARIANTS
  TypeOK
  CommonVersionsContiguous
  PrimaryKeysNeverCollide
  OutboxFollowsVersions
  AppliedOnce
PROPERTIES
  LifecycleMovesForward
  TokenNotLost
  InventorySpec
CHECK_DEADLOCK FALSE
