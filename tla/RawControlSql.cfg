SPECIFICATION FairSpec
CONSTANTS
  Writes = {w1, w2}
  ControlVerbs = {"COMMIT;", "ABORT"}
PROPERTIES
  BodyKeepsTransaction
