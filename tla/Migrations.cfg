SPECIFICATION Spec
CONSTANTS
  Clients = {c1, c2}
  Names = {"a", "b", "c", "l"}
  Requests <- MCRequests
  Implicit = {"a"}
  Backends = {"sqlite", "pg"}
  Unrecorded = 9
INVARIANTS
  RecordedIsInstalled
  MetadataMatchesSchema
  RulesHold
PROPERTIES
  LogPromise
