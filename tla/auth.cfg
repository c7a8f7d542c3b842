SPECIFICATION MCSpec
CONSTANTS
  Handlers = {h1, h2}
  MaxDevices = 2
  MaxTokens = 3
  MaxLocks = 1
  MaxFaults = 1
  Roles = {seeker, recruiter}
  MaxIssues = 2
SYMMETRY Symmetry
CHECK_DEADLOCK FALSE
INVARIANTS
  RotatedTokenDies
  LogoutEndsIdleSessions
  DeviceLimitInSequence
  VerifiedHasData
  NewestCodeIsAccepted
