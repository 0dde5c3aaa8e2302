SPECIFICATION FairExtractorSpec
CONSTANTS
  x = x
  y = y
  z = z
  bad = bad
  Selections <- MCSelections
  EntryPaths <- MCPaths
  Unsafe = {bad}
  Existing <- MCExisting
  NoExit = NoExit
CHECK_DEADLOCK FALSE
INVARIANTS
  WholePlanFirst
  ExitCodeIsRight
  CancelStops
PROPERTIES
  ExistingIntact
  ProgramEnds
