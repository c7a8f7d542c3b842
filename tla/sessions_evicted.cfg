SPECIFICATION Spec
CONSTANTS
  Handlers = {h1}
  MaxDevices = 2
  MaxTokens = 5
  MaxLocks = 0
  MaxFaults = 0
INVARIANTS
  RefreshedTokenIsValid
