SPECIFICATION Spec
CHECK_DEADLOCK FALSE
CONSTANTS
  Names <- MCNames
  Rules <- MCRules
  Sources <- MCSources
  StrayRows <- MCStrayRows
  MaxSafe = 3
  ExponentFrom = 5
  MaxFloat = 7
INVARIANTS
  RoundTrip
  ExportedIsImportable
  ImportedIsSound
