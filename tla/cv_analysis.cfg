SPECIFICATION FairSpec
CONSTANTS
  Handlers = {h1, h2}
  MaxRows = 2
  Attempts = 3
  MaxStalls = 1
  MaxFaults = 2
INVARIANTS
  OneInProgress
  SkillsAreOfLatest
  GivenUpIsRecorded
PROPERTIES
  AnalysisEnds
CHECK_DEADLOCK FALSE
