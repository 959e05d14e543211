SPECIFICATION FairSpec
CONSTANTS
  Writes = {w1, w2}
  ControlVerbs = {"COMMIT", "ROLLBACK"}
INVARIANTS
  TypeOK
  IdleHandleClean
  ReportTruthful
  PoisonedNeverCommits
PROPERTIES
  OnlyCommitIsDurable
  BodyKeepsTransaction
  ScopeEnds
  PromiseKept
