SPECIFICATION Spec
CONSTANTS
  Nodes = {n1, n2}
  Depths = {1}
  NodeBudgets = {4}
  EdgeBudgets = {4}
  ChunkSize = 1
  MaxChanges = 1
  SnapshotScopes = {FALSE}
INVARIANTS
  EveryNeighborHasItsRecord
CHECK_DEADLOCK FALSE
