SPECIFICATION Spec
CONSTANTS
  works = works
  board = board
  None = None
  Includes <- CategoryNames
  Organizations = {works, board}
  Reports = {1, 2, 3}
  Requests = {r1, r2}
  Files = {1, 2, 3, 4}
  Elsewhere = Elsewhere
  Profiles <- Variants
  Drafts <- AllDrafts
  Owners = {works}
  allowedReportsPerMonth = 1
  evidenceLimitFor <- Limits
  MaxBatch = 2
  maxAccuracyMeters = 8
  warningDistanceMeters = 2
  conflictDistanceMeters = 1
  Workloads <- Mixes
SYMMETRY Symmetry
INVARIANTS IntakeInv OfferedImageIsStored TrustIsEarned
PROPERTIES RoutedToTheOne
CHECK_DEADLOCK FALSE
