SPECIFICATION ServeSpec
CONSTANTS
  Chains <- MCChains
  Messages = 2
  Deletes = {2}
  ConsumerMaxRetries = 2
  CommitModulo = 2
  ResourceTypes = {"host", "service"}
  ReporterTypes = {"hbi"}
  Values = {"v"}
INVARIANTS AcceptedOptionsConstruct OrderlyExit CommitsOnlyReplicated SchemaSourcesAgree UpdatesAreExact
PROPERTY EndsWhenToldTo
CHECK_DEADLOCK FALSE
