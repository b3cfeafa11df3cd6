SPECIFICATION RequestsSpec
CONSTANTS
  Clients = {c1}
  Configurations <- MCConfigurations
  Spellings <- MCSpellings
  Fields <- MCFields
  Tuples = {"t1", "t2"}
  Filters <- MCFilters
  Faults <- MCFaults
  ResourceTypes = {"host"}
  ReporterTypes = {"hbi"}
  Values = {}
  MaxRevisions = 3
INVARIANTS AnsweredOnlyIfAdmitted SpellingsAgree
PROPERTIES ReadOnlyKeepsResources RelationsStoreSpec
