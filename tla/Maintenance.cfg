SPECIFICATION MaintenanceSpec
CONSTANTS
  Openers = {p1, p2}
  Versions <- MCVersions
  Keeper = p1
  MaxFrames = 2
  Off = Off
INVARIANTS
  SelectedWalHolds
  UnsafeWritersWereOvertaken
  ReportIsEffective
  LimitRestored
PROPERTIES
  ModeChangesOnRequest
  CompleteIsTrue
