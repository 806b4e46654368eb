SPECIFICATION MixSpec
CONSTANTS
  Requests = {r1, r2}
  Sessions = {1, 2, 3}
  Enrollments = {11, 12}
  RecoveryCodes = {21, 22}
  ResetTokens = {31, 32, 33}
  Passwords = {p1, p2}
  None = None
  MaxAttempts = 2
  backupCodeCount = 1
  MaxVersion = 2
  MaxClock = 1
  MaxStamp = 4
  Workload = {"login", "enroll", "challenge", "reset", "admin"}
SYMMETRY Symmetry
INVARIANTS AttemptsBounded SerialRecoveryCodesWork CurrentTokenKnowsPassword LiveResetsBounded
PROPERTIES FactorSpent RevocationIsFinal
