SPECIFICATION MCSpec
CONSTANTS
  Jobs = {j1, j2}
  Requests = {r1, r2}
  Passes = {p1}
  BatchSize = 2
  MaxFaults = 1
INVARIANTS
  PublishedWasApproved
  JobFitsItsStatusInSequence
PROPERTIES
  StatusFollowsLifecycleInSequence
  OverdueIsEnded
CHECK_DEADLOCK FALSE
