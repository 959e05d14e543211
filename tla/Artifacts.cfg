SPECIFICATION Spec
CONSTANTS
  Backups = {b1}
  Exports = {e1}
  Objects = {x, y}
  MaxCommits = 2
  Nobody = Nobody
  Outsider = Outsider
INVARIANTS
  TypeOK
  PublishedIsComplete
  SuccessIsPublished
  NoLeftovers
PROPERTIES
  NeverOverwritten
CHECK_DEADLOCK FALSE
