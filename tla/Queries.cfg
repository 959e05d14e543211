SPECIFICATION QuerySpec
CONSTANTS
  Ids <- MCIds
  Starts <- MCStarts
  Fields <- MCFields
  Cells <- MCCells
  Limits = {2}
  Absent = Absent
  Failed = Failed
INVARIANTS
  AnswersExact
  PagesPartition
