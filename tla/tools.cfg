SPECIFICATION Spec
CONSTANTS
  council = council
  citizen = citizen
  clerk = clerk
  pothole = pothole
  notice = notice
  case = case
  message = message
  evidence = evidence
  None = None
  Requests = {r1, r2}
  Backups = {1, 2}
  Table <- TableOf
  Parent <- ParentOf
  Outside <- OutsideRows
  WarningHours = 1
  CriticalHours = 2
  WarningFree = 15
  CriticalFree = 5
  MaxClock = 3
  Workloads <- Mixes
SYMMETRY Symmetry
INVARIANTS ToolsInv RestorableUnlessTorn
PROPERTIES RestoreIsExact GateHolds
CHECK_DEADLOCK FALSE
