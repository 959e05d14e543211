SPECIFICATION Spec
CONSTANTS
  Nodes = {n1, n2, n3}
  Depths = {1, 3}
  NodeBudgets = {2, 4}
  EdgeBudgets = {1, 4}
  ChunkSize = 1
  MaxChanges = 1
  SnapshotScopes = {TRUE, FALSE}
INVARIANTS
  NeighborsExact
  BudgetsExact
  WorkBounded
CHECK_DEADLOCK FALSE
