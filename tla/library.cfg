SPECIFICATION MCSpec
CONSTANTS
  Keys = {k1, k2, k3}
  Columns = {avatar}
  Handlers = {h1, h2}
  MaxFaults = 1
  NoKey = NoKey
  Idle = Idle
SYMMETRY Symmetry
INVARIANTS
  RowsHaveTheirFiles
  NothingIsTwiceInSequence
PROPERTIES
  KeepsPromise
  PassLeavesNoOrphan
CHECK_DEADLOCK FALSE
