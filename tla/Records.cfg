SPECIFICATION Spec
CONSTANTS
  Clients = {c1, c2}
  i1 = i1
  i2 = i2
  Ids = {i1, i2}
  Columns = {x, y}
  Values = {0, 1}
  Blank = 0
  Cascading = {owns}
  Restricting = {cites}
  Plain = {cites}
  Pairs <- MCPairs
  MaxWrites = 2
  Absent = Absent
  Untouched = Untouched
SYMMETRY MCSymmetry
INVARIANTS
  NoDanglingEdge
PROPERTIES
  RestrictKeepsLinks
  OtherColumnsKept
